---- MODULE Spec2Model ----
(***************************************************************************)
(* Snip-It execution engine: template engine, parameter resolver, action   *)
(* executor and chain orchestrator.                                        *)
(*                                                                         *)
(* Strings are sequences of one-character strings, so that scanning,       *)
(* splitting and trimming are computed and not assumed.  A JavaScript      *)
(* value of type `T | undefined` is a sequence of length at most one:      *)
(* None is undefined, Some(v) is the value v.                              *)
(***************************************************************************)
EXTENDS Integers, Sequences, FiniteSets, TLC

VARIABLES
  \* templateEngine.ts: one call of replaceTemplateTokens
  source, resolver, rendered,
  \* actionService.ts: one call of prepareChainedOutput
  output, trimmed,
  \* actionExecutor.ts: one call of normalizePathForShell
  pathValue, language, platform, bashImplementation, normalized,
  \* parameterResolver.ts: one call of ParameterResolver.resolve
  resolveAction, providedValues, descriptors, results, cursor, prompts,
  resolvePc,
  \* actionExecutor.ts: what execute renders from the resolved values
  renderTarget, resolvedScript, renderEnv,
  \* actionExecutor.ts: one call of ActionExecutor.execute
  execAction, forceOutputChannel, secretStorage, execPc, envKeys, tempFs,
  cleanups, childEvents, spawned, execOutcome,
  \* actionExecutor.ts: calls of cleanup on one temporary path
  cleanupPath, cleanupFs, cleanupCalls,
  \* actionService.ts: one runAction with its chain run
  activeActions, chainPc, rootAction, linkIndex, visited, previousResult,
  executions, messages,
  \* the editor window at this moment, and the context runAction captured
  editorState, context,
  \* actionExecutor.ts: execute up to its log lines, run twice on the same
  \* action with two secret stores
  logAction, logParameters, logTarget, logOutputChannel, secretStores, logPc,
  spawnOptionsOf, outputLines,
  \* actionStore.ts and the actionService.ts operations that write it
  cache, uuids, lastSave,
  \* runs of runAction started by the run command, each with its position
  runPc, runChain, runLink,
  \* the script of the editor's draft and the script stored for it on save
  draftScript, storedScript,
  \* one replaceTokens call: the text, the captured context, the action with its target, the resolved values and the result
  tokenSource, tokenContext, tokenAction, tokenValues, tokenRendered,
  \* process.env of the extension host, what buildEnvironment returned last, and the number of runs
  processEnv, childEnv, envRuns,
  \* the executor's cached bash lookup, what where bash would answer now, the lookups made and what they saw, the getCommand calls and the last command returned
  cachedBashInfo, whereOutput, bashLookups, lookedUp, bashCalls, lastCommand,
  \* the files that exist, the start directory, the directory the search is at, the directories it looked into, its position and the command getCommand returns
  pyFiles, pyStart, pyCurrent, pyVisited, pyPc, pyCommand,
  \* ProcessTerminal: the pseudo-terminal of one run and what it has done
  pty, ptyResults, ptyDisposeCalls, ptyWrites,
  \* one call of buildEnvironment: what it is given and what it returns
  assemblyInput, assemblyBuilt,
  \* a chain run over actions that have chains of their own
  flatActions, flatPc, flatIndex, flatVisited, flatExecuted,
  \* one import: the store it finds, the file it parses, the list it hands to overwrite
  importExisting, importParsed, importOverwritten,
  \* two operations of the action store in flight together
  sharedCache, opRequest, opPc, opRead, storageFile, lastEvent, opOverlap,
  \* the editor panel: what it shows, which caller awaits its draft, the store, the saves
  currentPanel, awaitingDraft, editorActions, editorUuids, editorSaves,
  \* ClipboardTrigger: its timers, its flags, the reads in flight, the calls of the handler
  clipTimers, clipDisposed, clipLastValue, clipReading, windowFocused, clipHandled,
  \* testDraft: the secret store, the draft under test, the keys stored for the test
  testStorage, testSaved, testBase, testEnv, testPc, testIndex, testCleanupKeys, testStored

templateVars == <<source, resolver, rendered>>
trimVars == <<output, trimmed>>
pathVars == <<pathValue, language, platform, bashImplementation, normalized>>
resolveVars ==
  <<resolveAction, providedValues, descriptors, results, cursor, prompts,
    resolvePc, renderTarget, resolvedScript, renderEnv>>
execVars ==
  <<execAction, forceOutputChannel, secretStorage, execPc, envKeys,
    tempFs, cleanups, childEvents, spawned, execOutcome>>
cleanupVars == <<cleanupPath, cleanupFs, cleanupCalls>>
chainVars ==
  <<activeActions, chainPc, rootAction, linkIndex, visited, previousResult,
    executions, messages, editorState, context>>
logVars ==
  <<logAction, logParameters, logTarget, logOutputChannel, secretStores, logPc,
    spawnOptionsOf, outputLines>>
storeVars ==
  <<cache, uuids, lastSave>>
runsVars ==
  <<runPc, runChain, runLink>>
saveVars ==
  <<draftScript, storedScript>>
tokenVars ==
  <<tokenSource, tokenContext, tokenAction, tokenValues, tokenRendered>>
envVars ==
  <<processEnv, childEnv, envRuns>>
bashVars ==
  <<cachedBashInfo, whereOutput, bashLookups, lookedUp, bashCalls, lastCommand>>
pythonVars ==
  <<pyFiles, pyStart, pyCurrent, pyVisited, pyPc, pyCommand>>
ptyVars ==
  <<pty, ptyResults, ptyDisposeCalls, ptyWrites>>
assemblyVars ==
  <<assemblyInput, assemblyBuilt>>
flatVars ==
  <<flatActions, flatPc, flatIndex, flatVisited, flatExecuted>>
importVars ==
  <<importExisting, importParsed, importOverwritten>>
opsVars ==
  <<sharedCache, opRequest, opPc, opRead, storageFile, lastEvent, opOverlap>>
editorVars ==
  <<currentPanel, awaitingDraft, editorActions, editorUuids, editorSaves>>
clipVars ==
  <<clipTimers, clipDisposed, clipLastValue, clipReading, windowFocused, clipHandled>>
testVars ==
  <<testStorage, testSaved, testBase, testEnv, testPc, testIndex, testCleanupKeys, testStored>>
vars ==
  <<templateVars, trimVars, pathVars, resolveVars, execVars, cleanupVars,
    chainVars, logVars,
    storeVars,
    runsVars,
    saveVars,
    tokenVars,
    envVars,
    bashVars,
    pythonVars,
    ptyVars,
    assemblyVars,
    flatVars,
    importVars,
    opsVars,
    editorVars,
    clipVars,
    testVars>>

\* what each specification leaves alone
notStoreVars ==
  <<templateVars, trimVars, pathVars, resolveVars, execVars, cleanupVars, chainVars, logVars,
    runsVars,
    saveVars,
    tokenVars,
    envVars,
    bashVars,
    pythonVars,
    ptyVars,
    assemblyVars,
    flatVars,
    importVars,
    opsVars,
    editorVars,
    clipVars,
    testVars>>
notRunsVars ==
  <<templateVars, trimVars, pathVars, resolveVars, execVars, cleanupVars, chainVars, logVars, storeVars,
    saveVars,
    tokenVars,
    envVars,
    bashVars,
    pythonVars,
    ptyVars,
    assemblyVars,
    flatVars,
    importVars,
    opsVars,
    editorVars,
    clipVars,
    testVars>>
notSaveVars ==
  <<templateVars, trimVars, pathVars, resolveVars, execVars, cleanupVars, chainVars, logVars, storeVars, runsVars,
    tokenVars,
    envVars,
    bashVars,
    pythonVars,
    ptyVars,
    assemblyVars,
    flatVars,
    importVars,
    opsVars,
    editorVars,
    clipVars,
    testVars>>
notTokenVars ==
  <<templateVars, trimVars, pathVars, resolveVars, execVars, cleanupVars, chainVars, logVars, storeVars, runsVars, saveVars,
    envVars,
    bashVars,
    pythonVars,
    ptyVars,
    assemblyVars,
    flatVars,
    importVars,
    opsVars,
    editorVars,
    clipVars,
    testVars>>
notEnvVars ==
  <<templateVars, trimVars, pathVars, resolveVars, execVars, cleanupVars, chainVars, logVars, storeVars, runsVars, saveVars, tokenVars,
    bashVars,
    pythonVars,
    ptyVars,
    assemblyVars,
    flatVars,
    importVars,
    opsVars,
    editorVars,
    clipVars,
    testVars>>
notBashVars ==
  <<templateVars, trimVars, pathVars, resolveVars, execVars, cleanupVars, chainVars, logVars, storeVars, runsVars, saveVars, tokenVars, envVars,
    pythonVars,
    ptyVars,
    assemblyVars,
    flatVars,
    importVars,
    opsVars,
    editorVars,
    clipVars,
    testVars>>
notPythonVars ==
  <<templateVars, trimVars, pathVars, resolveVars, execVars, cleanupVars, chainVars, logVars, storeVars, runsVars, saveVars, tokenVars, envVars, bashVars,
    ptyVars,
    assemblyVars,
    flatVars,
    importVars,
    opsVars,
    editorVars,
    clipVars,
    testVars>>
notPtyVars ==
  <<templateVars, trimVars, pathVars, resolveVars, execVars, cleanupVars, chainVars, logVars, storeVars, runsVars, saveVars, tokenVars, envVars, bashVars, pythonVars,
    assemblyVars,
    flatVars,
    importVars,
    opsVars,
    editorVars,
    clipVars,
    testVars>>
notAssemblyVars ==
  <<templateVars, trimVars, pathVars, resolveVars, execVars, cleanupVars, chainVars, logVars, storeVars, runsVars, saveVars, tokenVars, envVars, bashVars, pythonVars, ptyVars,
    flatVars,
    importVars,
    opsVars,
    editorVars,
    clipVars,
    testVars>>
notFlatVars ==
  <<templateVars, trimVars, pathVars, resolveVars, execVars, cleanupVars, chainVars, logVars, storeVars, runsVars, saveVars, tokenVars, envVars, bashVars, pythonVars, ptyVars, assemblyVars,
    importVars,
    opsVars,
    editorVars,
    clipVars,
    testVars>>
notImportVars ==
  <<templateVars, trimVars, pathVars, resolveVars, execVars, cleanupVars, chainVars, logVars, storeVars, runsVars, saveVars, tokenVars, envVars, bashVars, pythonVars, ptyVars, assemblyVars, flatVars,
    opsVars,
    editorVars,
    clipVars,
    testVars>>
notOpsVars ==
  <<templateVars, trimVars, pathVars, resolveVars, execVars, cleanupVars, chainVars, logVars, storeVars, runsVars, saveVars, tokenVars, envVars, bashVars, pythonVars, ptyVars, assemblyVars, flatVars, importVars,
    editorVars,
    clipVars,
    testVars>>
notEditorVars ==
  <<templateVars, trimVars, pathVars, resolveVars, execVars, cleanupVars, chainVars, logVars, storeVars, runsVars, saveVars, tokenVars, envVars, bashVars, pythonVars, ptyVars, assemblyVars, flatVars, importVars, opsVars,
    clipVars,
    testVars>>
notClipVars ==
  <<templateVars, trimVars, pathVars, resolveVars, execVars, cleanupVars, chainVars, logVars, storeVars, runsVars, saveVars, tokenVars, envVars, bashVars, pythonVars, ptyVars, assemblyVars, flatVars, importVars, opsVars, editorVars,
    testVars>>
notTestVars ==
  <<templateVars, trimVars, pathVars, resolveVars, execVars, cleanupVars, chainVars, logVars, storeVars, runsVars, saveVars, tokenVars, envVars, bashVars, pythonVars, ptyVars, assemblyVars, flatVars, importVars, opsVars, editorVars, clipVars>>
notTemplateVars ==
  <<trimVars, pathVars, resolveVars, execVars,
    cleanupVars, chainVars, logVars,
    storeVars,
    runsVars,
    saveVars,
    tokenVars,
    envVars,
    bashVars,
    pythonVars,
    ptyVars,
    assemblyVars,
    flatVars,
    importVars,
    opsVars,
    editorVars,
    clipVars,
    testVars>>
notTrimVars ==
  <<templateVars, pathVars, resolveVars, execVars,
    cleanupVars, chainVars, logVars,
    storeVars,
    runsVars,
    saveVars,
    tokenVars,
    envVars,
    bashVars,
    pythonVars,
    ptyVars,
    assemblyVars,
    flatVars,
    importVars,
    opsVars,
    editorVars,
    clipVars,
    testVars>>
notPathVars ==
  <<templateVars, trimVars, resolveVars, execVars,
    cleanupVars, chainVars, logVars,
    storeVars,
    runsVars,
    saveVars,
    tokenVars,
    envVars,
    bashVars,
    pythonVars,
    ptyVars,
    assemblyVars,
    flatVars,
    importVars,
    opsVars,
    editorVars,
    clipVars,
    testVars>>
notResolveVars ==
  <<templateVars, trimVars, pathVars, execVars,
    cleanupVars, chainVars, logVars,
    storeVars,
    runsVars,
    saveVars,
    tokenVars,
    envVars,
    bashVars,
    pythonVars,
    ptyVars,
    assemblyVars,
    flatVars,
    importVars,
    opsVars,
    editorVars,
    clipVars,
    testVars>>
notExecVars ==
  <<templateVars, trimVars, pathVars, resolveVars,
    cleanupVars, chainVars, logVars,
    storeVars,
    runsVars,
    saveVars,
    tokenVars,
    envVars,
    bashVars,
    pythonVars,
    ptyVars,
    assemblyVars,
    flatVars,
    importVars,
    opsVars,
    editorVars,
    clipVars,
    testVars>>
notCleanupVars ==
  <<templateVars, trimVars, pathVars, resolveVars,
    execVars, chainVars, logVars,
    storeVars,
    runsVars,
    saveVars,
    tokenVars,
    envVars,
    bashVars,
    pythonVars,
    ptyVars,
    assemblyVars,
    flatVars,
    importVars,
    opsVars,
    editorVars,
    clipVars,
    testVars>>
notLogVars ==
  <<templateVars, trimVars, pathVars, resolveVars, execVars, cleanupVars,
    chainVars,
    storeVars,
    runsVars,
    saveVars,
    tokenVars,
    envVars,
    bashVars,
    pythonVars,
    ptyVars,
    assemblyVars,
    flatVars,
    importVars,
    opsVars,
    editorVars,
    clipVars,
    testVars>>
notChainVars ==
  <<templateVars, trimVars, pathVars, resolveVars,
    execVars, cleanupVars, logVars,
    storeVars,
    runsVars,
    saveVars,
    tokenVars,
    envVars,
    bashVars,
    pythonVars,
    ptyVars,
    assemblyVars,
    flatVars,
    importVars,
    opsVars,
    editorVars,
    clipVars,
    testVars>>

(***************************************************************************)
(* Bounds of the model.                                                    *)
(***************************************************************************)
MaxTextLen == 4
MaxParts == 2
MaxOutputLen == 4
MaxPathLen == 4
MaxScriptParts == 2
MaxEnv == 2
MaxChain == 2
MaxCleanupCalls == 3
MaxStore == 2
MaxUuid == 2
MaxImport == 2

(***************************************************************************)
(* Generic helpers.                                                        *)
(***************************************************************************)
None == << >>
Some(v) == <<v>>
IsSome(o) == Len(o) = 1
Get(o) == o[1]

SeqsUpTo(S, n) == UNION {[1..k -> S] : k \in 0..n}

RECURSIVE Flatten(_)
Flatten(parts) ==
  IF parts = << >> THEN << >> ELSE Head(parts) \o Flatten(Tail(parts))

SetMin(S) == CHOOSE x \in S : \A y \in S : x <= y

\* String.prototype.includes
Contains(s, sub) ==
  \E i \in 1..(Len(s) - Len(sub) + 1) : SubSeq(s, i, i + Len(sub) - 1) = sub

(***************************************************************************)
(* Template engine (src/src/execution/templateEngine.ts).                  *)
(***************************************************************************)

\* TOKEN_PATTERN = /\$\{([^}]+)\}/g tried at index i of source: the index of
\* the closing brace of the match that starts at i, or 0 when there is none.
\* [^}]+ is greedy over everything that is not a closing brace, so the match
\* ends at the first closing brace, which must leave a non-empty interior.
TokenMatchEnd(src, i) ==
  IF /\ i + 3 <= Len(src)
     /\ src[i] = "$"
     /\ src[i + 1] = "{"
     /\ src[i + 2] # "}"
  THEN LET closers == {j \in (i + 3)..Len(src) : src[j] = "}"}
       IN  IF closers = {} THEN 0 ELSE SetMin(closers)
  ELSE 0

\* String.prototype.split(":")
RECURSIVE SplitFrom(_, _, _)
SplitFrom(s, i, cur) ==
  IF i > Len(s) THEN <<cur>>
  ELSE IF s[i] = ":" THEN <<cur>> \o SplitFrom(s, i + 1, << >>)
  ELSE SplitFrom(s, i + 1, Append(cur, s[i]))

SplitColon(s) == SplitFrom(s, 1, << >>)

\* { raw, key, args } of one match
MakeToken(match) ==
  LET withoutDelimiters == SubSeq(match, 3, Len(match) - 1)
      parts == SplitColon(withoutDelimiters)
  IN  [raw |-> match, key |-> Head(parts), args |-> Tail(parts)]

\* A resolver callback is data: "never" always answers undefined, "byKey"
\* answers val for tokens whose key is key and undefined for every other,
\* "table" lists the answer of a callback for each token of the source.
ApplyResolver(res, token) ==
  CASE res.kind = "never" -> None
    [] res.kind = "byKey" -> IF token.key = res.key THEN Some(res.val) ELSE None
    [] res.kind = "table" ->
         res.table[CHOOSE k \in 1..Len(res.table) :
                     res.table[k].raw = token.raw].value

\* value ?? match, with the delimiters lost on the undefined branch
ReplacerDropsDelimiters(match, res) ==
  LET value == ApplyResolver(res, MakeToken(match))
  IN  IF IsSome(value) THEN Get(value) ELSE SubSeq(match, 3, Len(match) - 1)

\* value || match: an empty replacement falls back to the literal token
ReplacerFalsyFallback(match, res) ==
  LET value == ApplyResolver(res, MakeToken(match))
  IN  IF IsSome(value) /\ Get(value) # << >> THEN Get(value) ELSE match

\* the replace callback: value ?? match
Replacer(match, res) ==
  LET value == ApplyResolver(res, MakeToken(match))
  IN  IF IsSome(value) THEN Get(value) ELSE match

\* source.replace(TOKEN_PATTERN, callback): leftmost matches, left to right,
\* never overlapping, the replacement text is not scanned again.
RECURSIVE ReplaceFrom(_, _, _)
ReplaceFrom(src, res, i) ==
  IF i > Len(src) THEN << >>
  ELSE LET e == TokenMatchEnd(src, i)
       IN  IF e = 0
           THEN <<src[i]>> \o ReplaceFrom(src, res, i + 1)
           ELSE Replacer(SubSeq(src, i, e), res) \o ReplaceFrom(src, res, e + 1)

replaceTemplateTokens(src, res) == ReplaceFrom(src, res, 1)

\* Inputs of the template specification.
TemplateAlphabet == {"$", "{", "}", ":", "a"}
TemplateFragments ==
  { <<"$", "{", "a", "}">>,
    <<"$", "{", "b", ":", "a", "}">>,
    <<"$", "{">>,
    <<"x", "}">>,
    <<"$">> }
TemplateSources ==
  SeqsUpTo(TemplateAlphabet, MaxTextLen)
    \cup {Flatten(p) : p \in SeqsUpTo(TemplateFragments, MaxParts)}
ResolverValues == { << >>, <<"v">>, <<"$", "{", "a", "}">> }
Resolvers ==
  {[kind |-> "never", key |-> << >>, val |-> << >>]}
    \cup {[kind |-> "byKey", key |-> k, val |-> v] :
            k \in {<<"a">>, <<"b">>}, v \in ResolverValues}

TemplateIdle ==
  /\ source = << >>
  /\ resolver = [kind |-> "never", key |-> << >>, val |-> << >>]
  /\ rendered = None

TemplateInit ==
  /\ source \in TemplateSources
  /\ resolver \in Resolvers
  /\ rendered = None

Render ==
  /\ rendered = None
  /\ rendered' = Some(replaceTemplateTokens(source, resolver))
  /\ UNCHANGED <<source, resolver>>

(***************************************************************************)
(* Chained output (src/src/actions/actionService.ts).                      *)
(***************************************************************************)
IsLineBreak(c) == c \in {"\r", "\n"}

\* /[\r\n]+$/u tried at index i: the class run must reach the end of input
TrailingRunAt(s, i) ==
  /\ i <= Len(s)
  /\ \A k \in i..Len(s) : IsLineBreak(s[k])

\* the regex engine advances the start index until a match is found
RECURSIVE FirstTrailingRun(_, _)
FirstTrailingRun(s, i) ==
  IF i > Len(s) THEN 0
  ELSE IF TrailingRunAt(s, i) THEN i
  ELSE FirstTrailingRun(s, i + 1)

\* /[\r\n]$/: one trailing line break only
PrepareStripsOne(out) ==
  IF out # << >> /\ IsLineBreak(out[Len(out)])
  THEN SubSeq(out, 1, Len(out) - 1) ELSE out

\* output.replace(/[\r\n]+$/u, "")
prepareChainedOutput(out) ==
  LET i == FirstTrailingRun(out, 1)
  IN  IF i = 0 THEN out ELSE SubSeq(out, 1, i - 1)

OutputAlphabet == {"h", " ", "\r", "\n"}
HelloOutput == <<"h", "e", "l", "l", "o", "\r", "\n", "\n">>
Outputs == SeqsUpTo(OutputAlphabet, MaxOutputLen) \cup {HelloOutput}

TrimIdle ==
  /\ output = << >>
  /\ trimmed = None

TrimInit ==
  /\ output \in Outputs
  /\ trimmed = None

PrepareChainedOutput ==
  /\ trimmed = None
  /\ trimmed' = Some(prepareChainedOutput(output))
  /\ UNCHANGED output

(***************************************************************************)
(* Shell path normalization (src/unnamed/part_001, the action executor).   *)
(***************************************************************************)
LowerCase ==
  <<"a", "b", "c", "d", "e", "f", "g", "h", "i", "j", "k", "l", "m",
    "n", "o", "p", "q", "r", "s", "t", "u", "v", "w", "x", "y", "z">>
UpperCase ==
  <<"A", "B", "C", "D", "E", "F", "G", "H", "I", "J", "K", "L", "M",
    "N", "O", "P", "Q", "R", "S", "T", "U", "V", "W", "X", "Y", "Z">>
IndexIn(alphabet, c) ==
  IF \E k \in 1..Len(alphabet) : alphabet[k] = c
  THEN CHOOSE k \in 1..Len(alphabet) : alphabet[k] = c
  ELSE 0
Letters == {LowerCase[k] : k \in 1..26} \cup {UpperCase[k] : k \in 1..26}
IsAsciiLetter(c) == c \in Letters                      \* [a-zA-Z]
ToLowerChar(c) ==
  IF IndexIn(UpperCase, c) = 0 THEN c ELSE LowerCase[IndexIn(UpperCase, c)]
ToUpperChar(c) ==
  IF IndexIn(LowerCase, c) = 0 THEN c ELSE UpperCase[IndexIn(LowerCase, c)]
\* what "." does not match without the s flag
IsLineTerminator(c) == c \in {"\n", "\r"}

\* value.replace(/\\/g, "/")
RECURSIVE convertWindowsPathToForwardSlash(_)
convertWindowsPathToForwardSlash(v) ==
  IF v = << >> THEN << >>
  ELSE <<IF Head(v) = "\\" THEN "/" ELSE Head(v)>>
         \o convertWindowsPathToForwardSlash(Tail(v))

\* s.replace(/^\/+/u, "")
RECURSIVE StripLeadingSlashes(_)
StripLeadingSlashes(s) ==
  IF s # << >> /\ Head(s) = "/" THEN StripLeadingSlashes(Tail(s)) ELSE s

\* /^\/mnt\//i.test(value)
StartsWithMnt(v) ==
  /\ Len(v) >= 5
  /\ v[1] = "/"
  /\ ToLowerChar(v[2]) = "m"
  /\ ToLowerChar(v[3]) = "n"
  /\ ToLowerChar(v[4]) = "t"
  /\ v[5] = "/"

\* /^([a-zA-Z]):[\\/]/.test(value)
StartsWithDrive(v) ==
  /\ Len(v) >= 3
  /\ IsAsciiLetter(v[1])
  /\ v[2] = ":"
  /\ v[3] \in {"\\", "/"}

\* value.match(/^([a-zA-Z]):[\\/](.*)$/): (.*)$ has to run to the end of the
\* input, and "." stops at a line terminator
DriveMatches(v) ==
  /\ StartsWithDrive(v)
  /\ \A k \in 4..Len(v) : ~IsLineTerminator(v[k])

Mnt == <<"/", "m", "n", "t", "/">>

\* the remainder keeps its leading slashes
WslKeepsLeadingSlashes(v) ==
  IF StartsWithMnt(v) THEN v
  ELSE IF ~DriveMatches(v) THEN convertWindowsPathToForwardSlash(v)
  ELSE Mnt \o <<ToLowerChar(v[1]), "/">>
         \o convertWindowsPathToForwardSlash(SubSeq(v, 4, Len(v)))

convertWindowsPathToWsl(v) ==
  IF StartsWithMnt(v) THEN v
  ELSE IF ~DriveMatches(v) THEN convertWindowsPathToForwardSlash(v)
  ELSE LET driveLetter == ToLowerChar(v[1])
           remainder ==
             StripLeadingSlashes(
               convertWindowsPathToForwardSlash(SubSeq(v, 4, Len(v))))
       IN  Mnt \o <<driveLetter, "/">> \o remainder

\* value.includes(";")
HasSemicolon(v) == \E k \in 1..Len(v) : v[k] = ";"

normalizePathForShell(v, lang, plat, impl) ==
  IF lang # "bash" \/ plat # "win32" THEN v
  ELSE IF ~StartsWithDrive(v) THEN v
  ELSE IF HasSemicolon(v) THEN v
  ELSE IF impl = Some("wsl") THEN convertWindowsPathToWsl(v)
  ELSE convertWindowsPathToForwardSlash(v)

\* getCommand: the flavor tag each language and platform runs with
ShellTargets ==
  {[language |-> l, platform |-> p, bashImplementation |-> None] :
     l \in {"powershell", "node", "python"}, p \in {"win32", "linux"}}
    \cup {[language |-> "bash", platform |-> "linux",
           bashImplementation |-> Some("posix")]}
    \cup {[language |-> "bash", platform |-> "win32",
           bashImplementation |-> Some(f)] : f \in {"wsl", "git-bash", "other"}}

PathAlphabet == {"C", "d", ":", "\\", "/", ";", "\n"}
DevFile ==
  <<"C", ":", "\\", "U", "s", "e", "r", "s", "\\", "d", "e", "v", "\\",
    "f", "i", "l", "e", ".", "s", "h">>
PathValues == SeqsUpTo(PathAlphabet, MaxPathLen) \cup {DevFile}

PathIdle ==
  /\ pathValue = << >>
  /\ language = "bash"
  /\ platform = "linux"
  /\ bashImplementation = Some("posix")
  /\ normalized = None

PathInit ==
  /\ pathValue \in PathValues
  /\ \E t \in ShellTargets :
       /\ language = t.language
       /\ platform = t.platform
       /\ bashImplementation = t.bashImplementation
  /\ normalized = None

NormalizePath ==
  /\ normalized = None
  /\ normalized' =
       Some(normalizePathForShell(pathValue, language, platform, bashImplementation))
  /\ UNCHANGED <<pathValue, language, platform, bashImplementation>>

(***************************************************************************)
(* Parameter resolver (src/unnamed/part_002, parameterResolver.ts) and the  *)
(* token parser it reads the script with (templateEngine.ts).              *)
(***************************************************************************)
ParamKey == <<"p", "a", "r", "a", "m">>

\* parseTemplateTokens: TOKEN_PATTERN.exec in a loop, one token per match
RECURSIVE ParseFrom(_, _)
ParseFrom(src, i) ==
  IF i > Len(src) THEN << >>
  ELSE LET e == TokenMatchEnd(src, i)
       IN  IF e = 0 THEN ParseFrom(src, i + 1)
           ELSE <<MakeToken(SubSeq(src, i, e))>> \o ParseFrom(src, e + 1)

parseTemplateTokens(src) == ParseFrom(src, 1)

\* args[k] of a destructuring: undefined past the end
ArgAt(args, k) == IF k <= Len(args) THEN Some(args[k]) ELSE None

\* extractParameterDescriptors: the loop body over the tokens, with the
\* names seen so far
RECURSIVE ExtractFrom(_, _)
ExtractFrom(tokens, seen) ==
  IF tokens = << >> THEN << >>
  ELSE LET token == Head(tokens)
           name == ArgAt(token.args, 1)
       IN  IF token.key # ParamKey THEN ExtractFrom(Tail(tokens), seen)
           ELSE IF name = None \/ name = Some(<< >>) \/ Get(name) \in seen
           THEN ExtractFrom(Tail(tokens), seen)
           ELSE <<[name |-> Get(name),
                   defaultValue |-> ArgAt(token.args, 2),
                   prompt |-> ArgAt(token.args, 3),
                   raw |-> token.raw]>>
                  \o ExtractFrom(Tail(tokens), seen \cup {Get(name)})

extractParameterDescriptors(src) == ExtractFrom(parseTemplateTokens(src), {})

\* Map.has and Map.set on a map kept in insertion order
MapHas(entries, name) == \E k \in 1..Len(entries) : entries[k].name = name
MapSet(entries, entry) ==
  IF MapHas(entries, entry.name)
  THEN [k \in 1..Len(entries) |->
          IF entries[k].name = entry.name THEN entry ELSE entries[k]]
  ELSE Append(entries, entry)

\* combineMetadata, first loop: the declared parameters
RECURSIVE FromDefinition(_, _)
FromDefinition(parameters, entries) ==
  IF parameters = << >> THEN entries
  ELSE LET parameter == Head(parameters)
       IN  FromDefinition(Tail(parameters),
             MapSet(entries, [name |-> parameter.name,
                              prompt |-> parameter.prompt,
                              defaultValue |-> parameter.defaultValue,
                              required |-> parameter.required]))

\* a script token becomes an optional parameter
ScriptMetadataOptional(token) ==
  [name |-> token.name, prompt |-> token.prompt,
   defaultValue |-> token.defaultValue, required |-> FALSE]

\* the metadata combineMetadata sets for a script token (lines 50-55)
ScriptMetadata(token) ==
  [name |-> token.name, prompt |-> token.prompt,
   defaultValue |-> token.defaultValue, required |-> TRUE]

\* the script's tokens set without asking fromDefinition.has
RECURSIVE MergeScriptOverwrites(_, _)
MergeScriptOverwrites(fromScript, entries) ==
  IF fromScript = << >> THEN entries
  ELSE MergeScriptOverwrites(Tail(fromScript),
         MapSet(entries, ScriptMetadata(Head(fromScript))))

\* combineMetadata, second loop: script tokens not declared yet
RECURSIVE MergeFromScript(_, _)
MergeFromScript(fromScript, entries) ==
  IF fromScript = << >> THEN entries
  ELSE LET token == Head(fromScript)
       IN  MergeFromScript(Tail(fromScript),
             IF ~MapHas(entries, token.name)
             THEN MapSet(entries, ScriptMetadata(token))
             ELSE entries)

combineMetadata(act) ==
  MergeFromScript(extractParameterDescriptors(act.script),
                  FromDefinition(act.parameters, << >>))

\* if (results[name]): an empty provided value counts as missing
HasTruthyResult(res, name) == name \in DOMAIN res /\ res[name] # << >>

\* results[descriptor.name] !== undefined
HasResult(res, name) == name \in DOMAIN res

\* metadata.defaultValue !== undefined && !metadata.required
UsesDefaultIfDefined(metadata) ==
  IsSome(metadata.defaultValue) /\ ~metadata.required

\* metadata.defaultValue && !metadata.required
UsesDefault(metadata) ==
  /\ IsSome(metadata.defaultValue)
  /\ Get(metadata.defaultValue) # << >>
  /\ ~metadata.required

\* prompt: metadata.prompt ?? `Enter value for ${metadata.name}`
PromptText(metadata) ==
  IF IsSome(metadata.prompt) THEN Get(metadata.prompt)
  ELSE <<"E", "n", "t", "e", "r", " ", "v", "a", "l", "u", "e", " ",
         "f", "o", "r", " ">> \o metadata.name

\* What window.showInputBox can resolve to: undefined when dismissed, the
\* pre-filled value accepted as it is, or typed text; validateInput refuses
\* an empty input for a required parameter.
Typed == <<"W">>
ValidAnswer(metadata, answer) ==
  IF answer = None THEN TRUE
  ELSE ~(metadata.required /\ Get(answer) = << >>)
InputBoxAnswers(metadata) ==
  {answer \in {None, Some(Typed), Some(<< >>), metadata.defaultValue} :
     ValidAnswer(metadata, answer)}

\* Inputs of the resolver specification.
NameP == <<"P">>
NameQ == <<"Q">>
NameR == <<"R">>
D1 == <<"D", "1">>
D2 == <<"D", "2">>
Ask == <<"a", "s", "k">>
TokenText(inner) == <<"$", "{">> \o inner \o <<"}">>
ScriptFragments ==
  { TokenText(ParamKey \o <<":">> \o NameP \o <<":">> \o D2),
    TokenText(ParamKey \o <<":">> \o NameQ \o <<":">> \o D2 \o <<":">> \o Ask),
    TokenText(ParamKey \o <<":">> \o NameP),
    TokenText(NameP) \o <<"x">> }
\* echo ${param:name:World}
NameN == <<"n", "a", "m", "e">>
World == <<"W", "o", "r", "l", "d">>
Echo == <<"e", "c", "h", "o", " ">>
EchoScript ==
  Echo \o TokenText(ParamKey \o <<":">> \o NameN \o <<":">> \o World)
Scripts ==
  {Flatten(p) : p \in SeqsUpTo(ScriptFragments, MaxScriptParts)}
    \cup {EchoScript}
\* the language of the action and the host execute runs on
RenderTargets ==
  { [language |-> "node", platform |-> "win32", bashImplementation |-> None],
    [language |-> "bash", platform |-> "win32",
     bashImplementation |-> Some("wsl")],
    [language |-> "bash", platform |-> "linux",
     bashImplementation |-> Some("posix")] }
NotRendered == [threw |-> FALSE, text |-> << >>]

DeclarationsOfP ==
  {<< >>} \cup
  {<<[name |-> NameP, prompt |-> None, defaultValue |-> d, required |-> r]>> :
     d \in {None, Some(<< >>), Some(D1)}, r \in BOOLEAN} \cup
  {<<[name |-> NameP, prompt |-> Some(Ask), defaultValue |-> d,
      required |-> FALSE]>> : d \in {None, Some(D1)}}
DeclarationsOfQ ==
  { << >>,
    <<[name |-> NameQ, prompt |-> None, defaultValue |-> Some(D1),
       required |-> FALSE]>>,
    <<[name |-> NameQ, prompt |-> None, defaultValue |-> None,
       required |-> TRUE]>> }
ProvidedValueSets ==
  {pv \in UNION {[dom -> {<< >>, <<"v">>}] : dom \in SUBSET {NameP, NameR}} :
     NameR \in DOMAIN pv => pv[NameR] = <<"v">>}

ResolveIdle ==
  /\ resolveAction = [parameters |-> << >>, script |-> << >>]
  /\ providedValues = << >>
  /\ descriptors = << >>
  /\ results = << >>
  /\ cursor = 0
  /\ prompts = << >>
  /\ resolvePc = "idle"
  /\ renderTarget =
       [language |-> "bash", platform |-> "linux",
        bashImplementation |-> Some("posix")]
  /\ resolvedScript = NotRendered
  /\ renderEnv = << >>

ResolveInit ==
  /\ \E p \in DeclarationsOfP, q \in DeclarationsOfQ, sc \in Scripts :
       resolveAction = [parameters |-> p \o q, script |-> sc]
  /\ providedValues \in ProvidedValueSets
  /\ descriptors = << >>
  /\ results = << >>
  /\ cursor = 0
  /\ prompts = << >>
  /\ resolvePc = "call"
  /\ renderTarget =
       [language |-> "bash", platform |-> "linux",
        bashImplementation |-> Some("posix")]
  /\ resolvedScript = NotRendered
  /\ renderEnv = << >>

\* resolve, up to the loop: lines 18-19
ResolveCall ==
  /\ resolvePc = "call"
  /\ descriptors' = combineMetadata(resolveAction)
  /\ results' = providedValues
  /\ cursor' = 1
  /\ resolvePc' = "loop"
  /\ UNCHANGED <<resolveAction, providedValues, prompts>>
  /\ UNCHANGED <<renderTarget, resolvedScript, renderEnv>>
  /\ UNCHANGED notResolveVars

\* one iteration that finds a value already there: lines 22-24
ResolveSkip ==
  /\ resolvePc = "loop"
  /\ cursor <= Len(descriptors)
  /\ HasResult(results, descriptors[cursor].name)
  /\ cursor' = cursor + 1
  /\ UNCHANGED <<resolveAction, providedValues, descriptors, results, prompts,
                 resolvePc>>
  /\ UNCHANGED <<renderTarget, resolvedScript, renderEnv>>
  /\ UNCHANGED notResolveVars

\* one iteration whose promptForValue returns the default: lines 26-29, 63-65
ResolveDefault ==
  /\ resolvePc = "loop"
  /\ cursor <= Len(descriptors)
  /\ ~HasResult(results, descriptors[cursor].name)
  /\ UsesDefault(descriptors[cursor])
  /\ results' = [n \in DOMAIN results \cup {descriptors[cursor].name} |->
                   IF n = descriptors[cursor].name
                   THEN Get(descriptors[cursor].defaultValue) ELSE results[n]]
  /\ cursor' = cursor + 1
  /\ UNCHANGED <<resolveAction, providedValues, descriptors, prompts, resolvePc>>
  /\ UNCHANGED <<renderTarget, resolvedScript, renderEnv>>
  /\ UNCHANGED notResolveVars

\* one iteration whose promptForValue shows the input box: lines 26-29, 67-78
ResolvePrompt ==
  /\ resolvePc = "loop"
  /\ cursor <= Len(descriptors)
  /\ ~HasResult(results, descriptors[cursor].name)
  /\ ~UsesDefault(descriptors[cursor])
  /\ \E answer \in InputBoxAnswers(descriptors[cursor]) :
       /\ prompts' = Append(prompts,
                       [name |-> descriptors[cursor].name,
                        value |-> descriptors[cursor].defaultValue,
                        prompt |-> PromptText(descriptors[cursor]),
                        answer |-> answer])
       /\ results' =
            IF IsSome(answer)
            THEN [n \in DOMAIN results \cup {descriptors[cursor].name} |->
                    IF n = descriptors[cursor].name THEN Get(answer)
                    ELSE results[n]]
            ELSE results
  /\ cursor' = cursor + 1
  /\ UNCHANGED <<resolveAction, providedValues, descriptors, resolvePc>>
  /\ UNCHANGED <<renderTarget, resolvedScript, renderEnv>>
  /\ UNCHANGED notResolveVars

\* return results: line 32
ResolveReturn ==
  /\ resolvePc = "loop"
  /\ cursor > Len(descriptors)
  /\ resolvePc' = "returned"
  /\ UNCHANGED <<resolveAction, providedValues, descriptors, results, cursor,
                 prompts>>
  /\ UNCHANGED <<renderTarget, resolvedScript, renderEnv>>
  /\ UNCHANGED notResolveVars

(***************************************************************************)
(* Action executor: execute (src/unnamed/part_001) and the secret manager  *)
(* (src/src/secrets/secretManager.ts).  Secret keys are opaque and written *)
(* as plain strings; env keys, messages and stream chunks are character    *)
(* sequences.  A file path is the sequence of its segments, and the file   *)
(* system is the set of the paths that exist.                              *)
(***************************************************************************)

\* SecretManager.readSecret: undefined for a missing or empty key, else
\* whatever storage.get answers
readSecret(storage, secretKey) ==
  IF secretKey = None THEN None
  ELSE IF Get(secretKey) = "" THEN None
  ELSE IF Get(secretKey) \in DOMAIN storage THEN Some(storage[Get(secretKey)])
  ELSE None

\* A JavaScript object used as a map: its entries in the order of its keys
Keys(m) == [k \in 1..Len(m) |-> m[k].key]
Has(m, key) == \E k \in 1..Len(m) : m[k].key = key
Lookup(m, key) ==
  IF Has(m, key)
  THEN Some(m[CHOOSE k \in 1..Len(m) : m[k].key = key].value)
  ELSE None
\* an assignment that keeps the value a key already has
AssignIfAbsent(m, key, value) ==
  IF Has(m, key) THEN m ELSE Append(m, [key |-> key, value |-> value])
\* m[key] = value: the key keeps its place, or is added at the end
Assign(m, key, value) ==
  IF Has(m, key)
  THEN [k \in 1..Len(m) |->
          IF m[k].key = key THEN [key |-> key, value |-> value] ELSE m[k]]
  ELSE Append(m, [key |-> key, value |-> value])

\* String(n) of a non-negative integer
Digits == <<"0", "1", "2", "3", "4", "5", "6", "7", "8", "9">>
RECURSIVE DecimalString(_)
DecimalString(n) ==
  IF n < 10 THEN <<Digits[n + 1]>>
  ELSE DecimalString(n \div 10) \o <<Digits[(n % 10) + 1]>>

\* the names of PREDEFINED_VARIABLES (predefinedVariables.ts)
WorkspaceFolderName ==
  <<"w", "o", "r", "k", "s", "p", "a", "c", "e",
    "F", "o", "l", "d", "e", "r">>
FileName == <<"f", "i", "l", "e">>
RelativeFileName ==
  <<"r", "e", "l", "a", "t", "i", "v", "e", "F", "i", "l", "e">>
SelectedTextName ==
  <<"s", "e", "l", "e", "c", "t", "e", "d", "T", "e", "x", "t">>
ClipboardTextName ==
  <<"c", "l", "i", "p", "b", "o", "a", "r", "d", "T", "e", "x", "t">>
LineNumberName == <<"l", "i", "n", "e", "N", "u", "m", "b", "e", "r">>
ExplorerSelectedPathName ==
  <<"e", "x", "p", "l", "o", "r", "e", "r", "S", "e", "l", "e", "c", "t",
    "e", "d", "P", "a", "t", "h">>

\* an ActionExecutionContext with nothing in it
EmptyContext ==
  [workspaceFolder |-> None, activeFile |-> None, relativeFile |-> None,
   selectedText |-> None, clipboardText |-> None, lineNumber |-> None,
   explorerSelection |-> None]

\* resolvePredefinedVariable; host.workspaceFolder is
\* workspace.workspaceFolders?.[0]?.uri.fsPath at the time of the call
resolvePredefinedVariable(name, ctx, host) ==
  CASE name = WorkspaceFolderName ->
         IF ctx.workspaceFolder # None THEN ctx.workspaceFolder
         ELSE host.workspaceFolder
    [] name = FileName -> ctx.activeFile
    [] name = RelativeFileName -> ctx.relativeFile
    [] name = SelectedTextName -> ctx.selectedText
    [] name = ClipboardTextName -> ctx.clipboardText
    [] name = LineNumberName ->
         IF ctx.lineNumber # None /\ Get(ctx.lineNumber) # 0
         THEN Some(DecimalString(Get(ctx.lineNumber)))
         ELSE None
    [] name = ExplorerSelectedPathName -> ctx.explorerSelection
    [] OTHER -> None

\* normalized.replace(/\\/g, "\\\\")
RECURSIVE DoubleBackslashes(_)
DoubleBackslashes(v) ==
  IF v = << >> THEN << >>
  ELSE (IF Head(v) = "\\" THEN <<"\\", "\\">> ELSE <<Head(v)>>)
         \o DoubleBackslashes(Tail(v))

Answer(value) == [threw |-> FALSE, value |-> value]
TypeError == [threw |-> TRUE, value |-> None]

\* an undefined value is answered with undefined for every language
FormatTokenValueGuarded(value, lang, impl, target, host) ==
  IF value = None THEN Answer(None)
  ELSE LET shellValue ==
             normalizePathForShell(Get(value), lang, host.platform, impl)
       IN  IF target = "script" /\ lang = "node" /\ host.platform = "win32"
           THEN Answer(Some(DoubleBackslashes(shellValue)))
           ELSE Answer(Some(shellValue))

\* formatTokenValue (lines 663-676).  For an undefined value
\* normalizePathForShell returns undefined (its regular expression is tried
\* on the text "undefined"), and normalized.replace then raises a TypeError.
formatTokenValue(value, lang, impl, target, host) ==
  LET shellValue ==
        IF value = None THEN None
        ELSE Some(normalizePathForShell(Get(value), lang, host.platform, impl))
  IN  IF target = "script" /\ lang = "node" /\ host.platform = "win32"
      THEN IF shellValue = None THEN TypeError
           ELSE Answer(Some(DoubleBackslashes(Get(shellValue))))
      ELSE Answer(shellValue)

\* a declared parameter of the token's name is looked for before the
\* predefined variables
TokenValueParameterFirst(token, act, options, impl, target, host) ==
  IF token.key = ParamKey
  THEN LET name == ArgAt(token.args, 1)
           value == IF name # None /\ Get(name) # << >>
                    THEN Lookup(options.parameterValues, Get(name))
                    ELSE None
       IN  IF value = None THEN Answer(None)
           ELSE formatTokenValue(value, act.language, impl, target, host)
  ELSE IF \E k \in 1..Len(act.parameters) : act.parameters[k].name = token.key
  THEN formatTokenValue(Lookup(options.parameterValues, token.key),
                        act.language, impl, target, host)
  ELSE LET predefined ==
             resolvePredefinedVariable(token.key, options.context, host)
       IN  IF predefined # None
           THEN formatTokenValue(predefined, act.language, impl, target, host)
           ELSE Answer(None)

\* the callback replaceTokens hands to replaceTemplateTokens (lines 343-363)
TokenValue(token, act, options, impl, target, host) ==
  IF token.key = ParamKey
  THEN LET name == ArgAt(token.args, 1)
           value == IF name # None /\ Get(name) # << >>
                    THEN Lookup(options.parameterValues, Get(name))
                    ELSE None
       IN  IF value = None THEN Answer(None)
           ELSE formatTokenValue(value, act.language, impl, target, host)
  ELSE LET predefined ==
             resolvePredefinedVariable(token.key, options.context, host)
       IN  IF predefined # None
           THEN formatTokenValue(predefined, act.language, impl, target, host)
           ELSE IF \E k \in 1..Len(act.parameters) :
                     act.parameters[k].name = token.key
           THEN formatTokenValue(Lookup(options.parameterValues, token.key),
                                 act.language, impl, target, host)
           ELSE Answer(None)

\* replaceTokens (lines 336-364): the rendered text, or the TypeError of the
\* callback
replaceTokens(src, act, options, impl, target, host) ==
  LET tokens == parseTemplateTokens(src)
      answers == [k \in 1..Len(tokens) |->
                    TokenValue(tokens[k], act, options, impl, target, host)]
  IN  IF \E k \in 1..Len(tokens) : answers[k].threw
      THEN [threw |-> TRUE, text |-> << >>]
      ELSE [threw |-> FALSE,
            text |->
              replaceTemplateTokens(src,
                [kind |-> "table",
                 table |-> [k \in 1..Len(tokens) |->
                              [raw |-> tokens[k].raw,
                               value |-> answers[k].value]]])]

\* substitute, the closure of buildEnvironment (lines 276-287); in the
\* environment target the callback raises nothing
Substitute(input, act, options, impl, host) ==
  IF input = None \/ input = Some(<< >>) THEN None
  ELSE LET replaced ==
             replaceTokens(Get(input), act, options, impl, "environment",
                           host).text
       IN  IF ~Contains(Get(input), <<"{", "{">>)
           THEN Some(normalizePathForShell(replaced, act.language,
                                           host.platform, impl))
           ELSE Some(replaced)

\* x ?? ""
OrEmpty(o) == IF o = None THEN << >> ELSE Get(o)

\* a missing secret is set to the empty string and the loop goes on
RECURSIVE EnvLoopDefaultsMissing(_, _, _, _, _, _, _)
EnvLoopDefaultsMissing(entries, storage, env, act, options, impl, host) ==
  IF entries = << >> THEN [threw |-> FALSE, key |-> << >>, env |-> env]
  ELSE LET entry == Head(entries)
           rest == Tail(entries)
       IN  IF entry.key = << >>
           THEN EnvLoopDefaultsMissing(rest, storage, env, act, options, impl,
                                       host)
           ELSE IF entry.fromSecret
           THEN EnvLoopDefaultsMissing(rest, storage,
                  Assign(env, entry.key,
                    OrEmpty(Substitute(readSecret(storage, entry.secretKey),
                                       act, options, impl, host))),
                  act, options, impl, host)
           ELSE IF entry.value # None
           THEN EnvLoopDefaultsMissing(rest, storage,
                  Assign(env, entry.key,
                    OrEmpty(Substitute(entry.value, act, options, impl, host))),
                  act, options, impl, host)
           ELSE EnvLoopDefaultsMissing(rest, storage, env, act, options, impl,
                                       host)

\* buildEnvironment, the loop over action.env (lines 289-304): the
\* environment with the declared entries assigned in order, or the key
\* whose secret it throws for
RECURSIVE EnvLoop(_, _, _, _, _, _, _)
EnvLoop(entries, storage, env, act, options, impl, host) ==
  IF entries = << >> THEN [threw |-> FALSE, key |-> << >>, env |-> env]
  ELSE LET entry == Head(entries)
           rest == Tail(entries)
       IN  IF entry.key = << >>
           THEN EnvLoop(rest, storage, env, act, options, impl, host)
           ELSE IF entry.fromSecret
           THEN LET secretValue == readSecret(storage, entry.secretKey)
                IN  IF secretValue = None
                    THEN [threw |-> TRUE, key |-> entry.key, env |-> env]
                    ELSE EnvLoop(rest, storage,
                           Assign(env, entry.key,
                             OrEmpty(Substitute(secretValue, act, options,
                                                impl, host))),
                           act, options, impl, host)
           ELSE IF entry.value # None
           THEN EnvLoop(rest, storage,
                  Assign(env, entry.key,
                    OrEmpty(Substitute(entry.value, act, options, impl, host))),
                  act, options, impl, host)
           ELSE EnvLoop(rest, storage, env, act, options, impl, host)

\* `PARAM_${parameterName.toUpperCase()}`
ParamPrefix == <<"P", "A", "R", "A", "M", "_">>
ToUpperCase(str) == [k \in 1..Len(str) |-> ToUpperChar(str[k])]
\* the name goes into the variable as it is written
ParamVariableAsWritten(parameterName) == ParamPrefix \o parameterName
ParamVariable(parameterName) == ParamPrefix \o ToUpperCase(parameterName)

\* the loop over Object.keys(options.parameterValues) (lines 306-312)
RECURSIVE ParamLoop(_, _, _, _, _)
ParamLoop(parameterValues, env, act, impl, host) ==
  IF parameterValues = << >> THEN env
  ELSE LET parameter == Head(parameterValues)
       IN  ParamLoop(Tail(parameterValues),
             Assign(env, ParamVariable(parameter.key),
               normalizePathForShell(parameter.value, act.language,
                                     host.platform, impl)),
             act, impl, host)

\* the two marker variables come first (lines 273-274)
SnipItActionId ==
  <<"S", "N", "I", "P", "_", "I", "T", "_",
    "A", "C", "T", "I", "O", "N", "_", "I", "D">>
SnipItWorkingDirectory ==
  <<"S", "N", "I", "P", "_", "I", "T", "_",
    "W", "O", "R", "K", "I", "N", "G", "_",
    "D", "I", "R", "E", "C", "T", "O", "R", "Y">>
MarkerKeys == <<SnipItActionId, SnipItWorkingDirectory>>

\* buildEnvironment (lines 267-315); host.processEnv is process.env
buildEnvironment(act, options, workingDirectory, impl, host, storage) ==
  LET marked ==
        Assign(Assign(host.processEnv, SnipItActionId, act.id),
               SnipItWorkingDirectory,
               normalizePathForShell(workingDirectory, act.language,
                                     host.platform, impl))
      looped == EnvLoop(act.env, storage, marked, act, options, impl, host)
  IN  IF looped.threw THEN looped
      ELSE [threw |-> FALSE, key |-> << >>,
            env |-> ParamLoop(options.parameterValues, looped.env, act, impl,
                              host)]

\* key.startsWith(prefix)
StartsWith(str, prefix) ==
  Len(str) >= Len(prefix) /\ SubSeq(str, 1, Len(prefix)) = prefix
SnipItPrefix == <<"S", "N", "I", "P", "_", "I", "T", "_">>

\* a.localeCompare(b) < 0 for keys made of letters, digits and "_": the
\* underscore sorts before the digits and those before the letters, letters
\* compare without regard to case first, and on a tie the lower-case letter
\* comes first
CollationRank(c) ==
  IF c = "_" THEN 0
  ELSE IF \E d \in 1..10 : Digits[d] = c
  THEN CHOOSE d \in 1..10 : Digits[d] = c
  ELSE IF IsAsciiLetter(c) THEN 10 + IndexIn(LowerCase, ToLowerChar(c))
  ELSE 40
CaseRank(c) == IF \E k \in 1..26 : UpperCase[k] = c THEN 1 ELSE 0
LexLess(a, b) ==
  \E i \in 1..(Len(a) + 1) :
    /\ i <= Len(b)
    /\ \A j \in 1..(i - 1) : a[j] = b[j]
    /\ (i = Len(a) + 1 \/ a[i] < b[i])
LocaleLess(a, b) ==
  LET primaryA == [k \in 1..Len(a) |-> CollationRank(a[k])]
      primaryB == [k \in 1..Len(b) |-> CollationRank(b[k])]
  IN  \/ LexLess(primaryA, primaryB)
      \/ /\ primaryA = primaryB
         /\ LexLess([k \in 1..Len(a) |-> CaseRank(a[k])],
                    [k \in 1..Len(b) |-> CaseRank(b[k])])
\* Array.from(set).sort((a, b) => a.localeCompare(b))
RECURSIVE SortedKeys(_)
SortedKeys(set) ==
  IF set = {} THEN << >>
  ELSE LET first == CHOOSE x \in set :
                      \A y \in set \ {x} : LocaleLess(x, y)
       IN  <<first>> \o SortedKeys(set \ {first})
\* parts.join(separator)
RECURSIVE Join(_, _)
Join(parts, separator) ==
  IF parts = << >> THEN << >>
  ELSE IF Len(parts) = 1 THEN parts[1]
  ELSE parts[1] \o separator \o Join(Tail(parts), separator)

\* the interesting keys with their values, key=value
collectInterestingEnvEntries(act, env) ==
  LET actionEnvKeys == {act.env[k].key : k \in 1..Len(act.env)}
      interesting ==
        {k \in 1..Len(env) :
           \/ StartsWith(env[k].key, SnipItPrefix)
           \/ StartsWith(env[k].key, ParamPrefix)
           \/ env[k].key \in actionEnvKeys}
  IN  IF interesting = {} THEN None
      ELSE Some(Join([k \in 1..Len(env) |->
                        IF k \in interesting
                        THEN env[k].key \o <<"=">> \o env[k].value
                        ELSE << >>],
                     <<",", " ">>))

\* collectInterestingEnvKeys (lines 538-567); env is never undefined here
collectInterestingEnvKeys(act, env) ==
  LET actionEnvKeys == {act.env[k].key : k \in 1..Len(act.env)}
      interesting ==
        {key \in {env[k].key : k \in 1..Len(env)} :
           \/ StartsWith(key, SnipItPrefix)
           \/ StartsWith(key, ParamPrefix)
           \/ key \in actionEnvKeys}
  IN  IF interesting = {} THEN None
      ELSE Some(Join(SortedKeys(interesting), <<",", " ">>))

\* /\s/.test(arg) || arg.includes("\"")
NeedsQuotes(arg) ==
  \E k \in 1..Len(arg) : arg[k] \in {" ", "\t", "\n", "\r", "\""}
\* arg.replace(/"/g, '\\"')
RECURSIVE EscapeQuotes(_)
EscapeQuotes(arg) ==
  IF arg = << >> THEN << >>
  ELSE (IF Head(arg) = "\"" THEN <<"\\", "\"">> ELSE <<Head(arg)>>)
         \o EscapeQuotes(Tail(arg))
\* formatArgsForLog (lines 523-536)
formatArgsForLog(args) ==
  IF args = << >> THEN << >>
  ELSE Join([k \in 1..Len(args) |->
               IF NeedsQuotes(args[k])
               THEN <<"\"">> \o EscapeQuotes(args[k]) \o <<"\"">>
               ELSE args[k]],
            <<" ">>)

\* logExecutionPlan (lines 497-521): the lines appended to the output
\* channel; toChannel is useOutputChannel and at is new Date().toISOString()
logExecutionPlan(act, workingDirectory, plan, spawnOptions, toChannel, at) ==
  LET args == formatArgsForLog(plan.args)
      interestingEnv == collectInterestingEnvKeys(act, spawnOptions.env)
      cwd == spawnOptions.cwd
  IN  (IF ~toChannel THEN <<<<"▶", " ">> \o act.name>> ELSE << >>)
        \o << <<" ", " ", "-", " ">> \o at
                \o <<" ", "|", " ", "l", "a", "n", "g", "u", "a", "g", "e",
                     "=", act.language, " ", "c", "w", "d", "=">> \o cwd,
              <<" ", " ", " ", " ", "c", "o", "m", "m", "a", "n", "d", ":",
                " ">> \o plan.command
                \o (IF args # << >> THEN <<" ">> \o args ELSE << >>) >>
        \o (IF interestingEnv # None /\ interestingEnv # Some(<< >>)
            THEN << <<" ", " ", " ", " ", "e", "n", "v", " ", "k", "e", "y",
                      "s", ":", " ">> \o Get(interestingEnv) >>
            ELSE << >>)

\* the working directory resolveWorkingDirectory answers with
ExecWorkingDirectory == <<"/", "w">>

\* Object.keys of the map resolve returns: the provided values first, then
\* the names the loop added, in the order of the descriptors
NameOrder == <<NameP, NameQ, NameR, NameN>>
ResultKeys(provided, metadata, res) ==
  SelectSeq(NameOrder, LAMBDA n : n \in DOMAIN provided)
    \o SelectSeq([k \in 1..Len(metadata) |-> metadata[k].name],
                 LAMBDA n : n \in DOMAIN res /\ n \notin DOMAIN provided)
ResultObject(provided, metadata, res) ==
  LET names == ResultKeys(provided, metadata, res)
  IN  [k \in 1..Len(names) |-> [key |-> names[k], value |-> res[names[k]]]]

\* execute, lines 140-144: the values resolve returned go into the script
\* (prepareExecutionPlan, line 236) and, when that did not throw, into the
\* environment (createSpawnOptions, buildEnvironment)
RenderScript ==
  /\ resolvePc = "returned"
  /\ \E target \in RenderTargets :
       LET act == [id |-> <<"a">>, language |-> target.language,
                   parameters |-> resolveAction.parameters, env |-> << >>]
           options == [context |-> EmptyContext,
                       parameterValues |->
                         ResultObject(providedValues, descriptors, results)]
           host == [platform |-> target.platform, workspaceFolder |-> None,
                    processEnv |-> << >>]
           script == replaceTokens(resolveAction.script, act, options,
                                   target.bashImplementation, "script", host)
       IN  /\ renderTarget' = target
           /\ resolvedScript' = script
           /\ renderEnv' =
                IF script.threw THEN << >>
                ELSE buildEnvironment(act, options, ExecWorkingDirectory,
                                      target.bashImplementation, host,
                                      << >>).env
  /\ resolvePc' = "rendered"
  /\ UNCHANGED <<resolveAction, providedValues, descriptors, results, cursor,
                 prompts>>
  /\ UNCHANGED notResolveVars

\* ---------------------------------------------------------------------
\* execute up to its log lines (lines 140-146), twice: the same action,
\* parameters and host, and two secret stores that hold the same keys

KeyK == <<"K">>
KeyA == <<"a">>
DrivePath == <<"C", ":", "\\", "d">>
LogEnvEntries ==
  { [key |-> KeyK, value |-> Some(<<"x">>), fromSecret |-> FALSE,
     secretKey |-> None],
    [key |-> KeyK, value |-> None, fromSecret |-> TRUE,
     secretKey |-> Some("s1")],
    [key |-> KeyA, value |-> None, fromSecret |-> TRUE,
     secretKey |-> Some("s2")],
    [key |-> SnipItActionId, value |-> Some(<<"x">>), fromSecret |-> FALSE,
     secretKey |-> None] }
SecretValues == {<<"t">>, <<"u">>}
\* the first store holds t under every key, the second any values
SecretStorePairs ==
  UNION { {<<[k \in dom |-> <<"t">>], second>> :
             second \in [dom -> SecretValues]} :
          dom \in {{"s1"}, {"s1", "s2"}} }
\* the maps resolve can return for parameters named p and P
ParameterObjects ==
  { << >>,
    <<[key |-> <<"p">>, value |-> DrivePath]>>,
    <<[key |-> <<"P">>, value |-> <<"b">>]>>,
    <<[key |-> <<"p">>, value |-> DrivePath],
      [key |-> <<"P">>, value |-> <<"b">>]>>,
    <<[key |-> <<"P">>, value |-> <<"b">>],
      [key |-> <<"p">>, value |-> DrivePath]>> }
LogTargets ==
  { [language |-> "bash", platform |-> "win32",
     bashImplementation |-> Some("wsl")],
    [language |-> "bash", platform |-> "linux",
     bashImplementation |-> Some("posix")] }
LogActionWith(env, target) ==
  [id |-> <<"a">>, name |-> <<"N">>, language |-> target.language,
   parameters |-> << >>, env |-> env, runInOutputChannel |-> FALSE]
\* the working directory, the temporary script and the clock of each run
WorkingDirectoryOn(target) ==
  IF target.platform = "win32" THEN <<"C", ":", "\\", "w">> ELSE <<"/", "w">>
ScriptPathOf(target, run) ==
  IF target.platform = "win32"
  THEN <<"C", ":", "\\", "t", "\\", Digits[run + 1], "\\", "a">>
  ELSE <<"/", "t", "/", Digits[run + 1], "/", "a">>
TimestampOf(run) == <<"0", Digits[run + 1]>>
\* convertScriptPathForBash (lines 610-620)
convertScriptPathForBash(scriptPath, target) ==
  IF target.platform # "win32" THEN scriptPath
  ELSE IF target.bashImplementation = Some("wsl")
  THEN convertWindowsPathToWsl(scriptPath)
  ELSE convertWindowsPathToForwardSlash(scriptPath)
\* the plan of a bash action (getCommand, getCommandArgs)
PlanOf(target, run) ==
  [command |-> IF target.platform = "win32" THEN <<"wsl.exe">>
               ELSE <<"b", "a", "s", "h">>,
   args |-> <<convertScriptPathForBash(ScriptPathOf(target, run), target)>>,
   scriptPath |-> ScriptPathOf(target, run),
   bashImplementation |-> target.bashImplementation]
LogHost(target) ==
  [platform |-> target.platform, workspaceFolder |-> None,
   processEnv |-> << >>]
NoSpawnOptions == [threw |-> FALSE, key |-> << >>, cwd |-> << >>, env |-> << >>]

LogIdle ==
  /\ logAction = LogActionWith(<< >>, [language |-> "bash"])
  /\ logParameters = << >>
  /\ logTarget = [language |-> "bash", platform |-> "linux",
                  bashImplementation |-> Some("posix")]
  /\ logOutputChannel = FALSE
  /\ secretStores = << >>
  /\ logPc = "idle"
  /\ spawnOptionsOf = << >>
  /\ outputLines = << >>

LogInit ==
  /\ logTarget \in LogTargets
  /\ \E env \in SeqsUpTo(LogEnvEntries, MaxEnv) :
       logAction = LogActionWith(env, logTarget)
  /\ logParameters \in ParameterObjects
  /\ logOutputChannel \in BOOLEAN
  /\ secretStores \in SecretStorePairs
  /\ logPc = "call"
  /\ spawnOptionsOf = <<NoSpawnOptions, NoSpawnOptions>>
  /\ outputLines = << <<>>, <<>> >>

\* createSpawnOptions (lines 251-265) of both runs
CreateSpawnOptionsOfBoth ==
  /\ logPc = "call"
  /\ spawnOptionsOf' =
       [run \in 1..2 |->
          LET built ==
                buildEnvironment(logAction,
                  [context |-> EmptyContext, parameterValues |-> logParameters],
                  WorkingDirectoryOn(logTarget),
                  logTarget.bashImplementation, LogHost(logTarget),
                  secretStores[run])
          IN  [threw |-> built.threw, key |-> built.key,
               cwd |-> WorkingDirectoryOn(logTarget), env |-> built.env]]
  /\ logPc' = "options"
  /\ UNCHANGED <<logAction, logParameters, logTarget, logOutputChannel,
                 secretStores, outputLines>>
  /\ UNCHANGED notLogVars

\* execute, line 146: logExecutionPlan of both runs; a run whose
\* buildEnvironment threw never gets there
LogExecutionPlanOfBoth ==
  /\ logPc = "options"
  /\ outputLines' =
       [run \in 1..2 |->
          IF spawnOptionsOf[run].threw THEN << >>
          ELSE logExecutionPlan(logAction, WorkingDirectoryOn(logTarget),
                 PlanOf(logTarget, run), spawnOptionsOf[run],
                 logOutputChannel \/ logAction.runInOutputChannel,
                 TimestampOf(run))]
  /\ logPc' = "logged"
  /\ UNCHANGED <<logAction, logParameters, logTarget, logOutputChannel,
                 secretStores, spawnOptionsOf>>
  /\ UNCHANGED notLogVars

\* what execute settles with: a result it resolves to, or an error it
\* rejects with
Result(code, err) ==
  [kind |-> "result", exitCode |-> code, stderr |-> err, message |-> << >>]
Rejection(message) ==
  [kind |-> "error", exitCode |-> None, stderr |-> << >>, message |-> message]

\* `Secret value not found for ${entry.key}. Update the secret and try
\* again.` (line 297)
SecretNotFoundText ==
  <<"S", "e", "c", "r", "e", "t", " ", "v", "a", "l", "u", "e", " ",
    "n", "o", "t", " ", "f", "o", "u", "n", "d">>
SecretNotFound(key) ==
  Rejection(SecretNotFoundText \o <<" ", "f", "o", "r", " ">> \o key
              \o <<".", " ", "U", "p", "d", "a", "t", "e", " ", "t", "h", "e",
                   " ", "s", "e", "c", "r", "e", "t", " ", "a", "n", "d", " ",
                   "t", "r", "y", " ", "a", "g", "a", "i", "n", ".">>)

\* the error of a child process that could not be launched
SpawnMessage == <<"s", "p", "a", "w", "n", " ", "E", "N", "O", "E", "N", "T">>
\* String(error) of an Error: its name, a colon and its message
ErrorToString(message) == <<"E", "r", "r", "o", "r", ":", " ">> \o message

\* the events of the child process that the handlers see
CloseEvent(code, chunks) ==
  [type |-> "close", code |-> code, stderrChunks |-> chunks,
   message |-> << >>]
ErrorEvent(message, chunks) ==
  [type |-> "error", code |-> None, stderrChunks |-> chunks,
   message |-> message]

\* the error event resolves with exit code -1 in the output channel too
SettleOnFabricates(event, useOutputChannel) ==
  IF event.type = "close"
  THEN Result(event.code, Flatten(event.stderrChunks))
  ELSE Result(Some(-1),
              Flatten(Append(event.stderrChunks, ErrorToString(event.message))))

\* what the promise of the run settles with on the first event of the
\* child: the close handlers (lines 99-107, 210-218) and the error handlers
\* (lines 109-118, 220-224)
SettleOn(event, useOutputChannel) ==
  IF event.type = "close"
  THEN Result(event.code, Flatten(event.stderrChunks))
  ELSE IF useOutputChannel
  THEN Rejection(event.message)
  ELSE Result(Some(-1),
              Flatten(Append(event.stderrChunks, ErrorToString(event.message))))

\* Temporary files: os.tmpdir()/snip-it-XXXXXX/<id>-<time><ext>
Dirname(p) == SubSeq(p, 1, Len(p) - 1)
IsUnder(p, dir) == Len(p) >= Len(dir) /\ SubSeq(p, 1, Len(dir)) = dir
TempDir == <<"d">>
ScriptPath == <<"d", "s">>

\* fs.unlink: ENOENT for a path that is not there; any other failure of the
\* file system is the fault "unlink"
Unlink(fs, p, fault) ==
  IF p \notin fs THEN [fs |-> fs, error |-> Some("ENOENT")]
  ELSE IF fault = "unlink" THEN [fs |-> fs, error |-> Some("EPERM")]
  ELSE [fs |-> fs \ {p}, error |-> None]

\* fs.rm with recursive and force: a missing folder is no error; a failure
\* of the file system is the fault "rm"
RmRecursive(fs, dir, fault) ==
  IF dir \notin fs THEN [fs |-> fs, error |-> None]
  ELSE IF fault = "rm" THEN [fs |-> fs, error |-> Some("EBUSY")]
  ELSE [fs |-> {q \in fs : ~IsUnder(q, dir)}, error |-> None]

\* no try around the two calls: the error leaves cleanup
Uncaught(step) == [fs |-> step.fs, warned |-> FALSE, raised |-> TRUE]

\* the catch block of cleanup (lines 692-696): a warning unless ENOENT
Caught(step) ==
  [fs |-> step.fs, warned |-> step.error # Some("ENOENT"), raised |-> FALSE]

\* cleanup (lines 687-697)
cleanup(fs, scriptPath, fault) ==
  LET unlinked == Unlink(fs, scriptPath, fault)
  IN  IF unlinked.error # None THEN Caught(unlinked)
      ELSE LET removed == RmRecursive(unlinked.fs, Dirname(scriptPath), fault)
           IN  IF removed.error # None THEN Caught(removed)
               ELSE [fs |-> removed.fs, warned |-> FALSE, raised |-> FALSE]

CleanupFaults == {"none", "unlink", "rm"}
CleanupFailed == Rejection(<<"c", "l", "e", "a", "n", "u", "p">>)

\* promise.finally / try-finally: the settled value stands unless the
\* finally block itself raises
Finally(settled, cleaned) ==
  IF cleaned.raised THEN CleanupFailed ELSE settled

\* Inputs of the executor specification.
EnvEntries ==
  {[key |-> k, value |-> v, fromSecret |-> FALSE, secretKey |-> None] :
     k \in {<< >>, <<"K">>}, v \in {None, Some(<<"x">>)}}
    \cup
  {[key |-> k, value |-> None, fromSecret |-> TRUE, secretKey |-> sk] :
     k \in {<< >>, <<"K">>}, sk \in {None, Some(""), Some("s1"), Some("s2")}}
SecretStorages ==
  UNION {[dom -> {<< >>, <<"t">>}] : dom \in SUBSET {"s1", "s2"}}
\* exit codes a closed process reports; null is None
ExitCodes == {Some(0), Some(2), None}
StderrChunks == {<< >>, <<<<"w">>>>}

\* The executor specification runs a bash action without parameters on a
\* POSIX host whose process has no environment of its own.
ExecActionWith(env, ch) ==
  [id |-> <<"a">>, language |-> "bash", parameters |-> << >>, env |-> env,
   runInOutputChannel |-> ch]
ExecOptions == [context |-> EmptyContext, parameterValues |-> << >>]
ExecImplementation == Some("posix")
ExecHost ==
  [platform |-> "linux", workspaceFolder |-> None, processEnv |-> << >>]

ExecIdle ==
  /\ execAction = ExecActionWith(<< >>, FALSE)
  /\ forceOutputChannel = FALSE
  /\ secretStorage = << >>
  /\ execPc = "idle"
  /\ envKeys = << >>
  /\ tempFs = {}
  /\ cleanups = << >>
  /\ childEvents = << >>
  /\ spawned = 0
  /\ execOutcome = None

ExecInit ==
  /\ \E env \in SeqsUpTo(EnvEntries, MaxEnv), ch \in BOOLEAN :
       execAction = ExecActionWith(env, ch)
  /\ forceOutputChannel \in BOOLEAN
  /\ secretStorage \in SecretStorages
  /\ execPc = "call"
  /\ envKeys = << >>
  /\ tempFs = {}
  /\ cleanups = << >>
  /\ childEvents = << >>
  /\ spawned = 0
  /\ execOutcome = None

\* forceOutputChannel || !!action.runInOutputChannel (line 145)
UseOutputChannel == forceOutputChannel \/ execAction.runInOutputChannel

\* execute, lines 140-143: parameters resolved, working directory chosen,
\* the rendered script written to a fresh temporary directory (678-685)
PrepareExecutionPlan ==
  /\ execPc = "call"
  /\ tempFs' = tempFs \cup {TempDir, ScriptPath}
  /\ execPc' = "planned"
  /\ UNCHANGED <<execAction, forceOutputChannel, secretStorage, envKeys,
                 cleanups, childEvents, spawned, execOutcome>>
  /\ UNCHANGED notExecVars

\* execute, line 144: createSpawnOptions throws out of execute when
\* buildEnvironment does, before anything is launched
CreateSpawnOptions ==
  /\ execPc = "planned"
  /\ LET built ==
           buildEnvironment(execAction, ExecOptions, ExecWorkingDirectory,
                            ExecImplementation, ExecHost, secretStorage)
     IN  IF built.threw
         THEN /\ execOutcome' = Some(SecretNotFound(built.key))
              /\ execPc' = "settled"
              /\ envKeys' = envKeys
         ELSE /\ envKeys' = Keys(built.env)
              /\ execPc' = "ready"
              /\ execOutcome' = execOutcome
  /\ UNCHANGED <<execAction, forceOutputChannel, secretStorage, tempFs,
                 cleanups, childEvents, spawned>>
  /\ UNCHANGED notExecVars

\* execute, lines 145-158, to the spawn: in the output channel path
\* runWithOutputChannel spawns (193), in the terminal path the terminal's
\* open does (52-54, 81)
Launch ==
  /\ execPc = "ready"
  /\ spawned' = spawned + 1
  /\ execPc' = "running"
  /\ UNCHANGED <<execAction, forceOutputChannel, secretStorage, envKeys,
                 tempFs, cleanups, childEvents, execOutcome>>
  /\ UNCHANGED notExecVars

\* the child's close event: the promise of the run resolves
ProcessClose ==
  /\ execPc = "running"
  /\ \E code \in ExitCodes, chunks \in StderrChunks :
       childEvents' = Append(childEvents, CloseEvent(code, chunks))
  /\ execPc' = "closing"
  /\ UNCHANGED <<execAction, forceOutputChannel, secretStorage, envKeys,
                 tempFs, cleanups, spawned, execOutcome>>
  /\ UNCHANGED notExecVars

\* the child's error event: the output channel path rejects with the
\* error, the terminal resolves with a result of its own
ProcessError ==
  /\ execPc = "running"
  /\ \E chunks \in StderrChunks :
       childEvents' = Append(childEvents, ErrorEvent(SpawnMessage, chunks))
  /\ execPc' = "closing"
  /\ UNCHANGED <<execAction, forceOutputChannel, secretStorage, envKeys,
                 tempFs, cleanups, spawned, execOutcome>>
  /\ UNCHANGED notExecVars

\* the finally of runWithTerminal (184-186) and of runWithOutputChannel
\* (225-227): cleanup runs, then execute settles with what the promise of
\* the run settled with
CleanupAndSettle ==
  /\ execPc = "closing"
  /\ \E fault \in CleanupFaults :
       LET cleaned == cleanup(tempFs, ScriptPath, fault)
       IN  /\ tempFs' = cleaned.fs
           /\ cleanups' =
                Append(cleanups, [fault |-> fault, warned |-> cleaned.warned,
                                  raised |-> cleaned.raised])
           /\ execOutcome' =
                Some(Finally(SettleOn(childEvents[1], UseOutputChannel),
                             cleaned))
  /\ execPc' = "settled"
  /\ UNCHANGED <<execAction, forceOutputChannel, secretStorage, envKeys,
                 childEvents, spawned>>
  /\ UNCHANGED notExecVars

\* a close event that follows the error event of a failed launch: in the
\* output channel path its handler resolves a promise that is settled
\* already, which changes nothing; the terminal has removed its listeners
CloseAfterError ==
  /\ execPc \in {"closing", "settled"}
  /\ Len(childEvents) = 1
  /\ childEvents[1].type = "error"
  /\ childEvents' = Append(childEvents, CloseEvent(Some(-2), << >>))
  /\ UNCHANGED <<execAction, forceOutputChannel, secretStorage, execPc,
                 envKeys, tempFs, cleanups, spawned, execOutcome>>
  /\ UNCHANGED notExecVars

\* the user closes the terminal of a running action: ProcessTerminal.close
\* and dispose (lines 56-74) kill the child and remove its listeners, so
\* onResult is never called and runWithTerminal stays pending
TerminalClosed ==
  /\ execPc = "running"
  /\ ~UseOutputChannel
  /\ execPc' = "abandoned"
  /\ UNCHANGED <<execAction, forceOutputChannel, secretStorage, envKeys,
                 tempFs, cleanups, childEvents, spawned, execOutcome>>
  /\ UNCHANGED notExecVars

(***************************************************************************)
(* cleanup called again and again on one temporary path                    *)
(* (src/unnamed/part_001, lines 687-697).                                  *)
(***************************************************************************)
TempPaths == {<<"d">>, <<"d", "s">>, <<"d", "x">>, <<"e">>, <<"e", "s">>}
\* a file exists only in a folder that exists
FsStates ==
  {fs \in SUBSET TempPaths : \A p \in fs : Len(p) > 1 => Dirname(p) \in fs}

CleanupIdle ==
  /\ cleanupPath = << >>
  /\ cleanupFs = {}
  /\ cleanupCalls = << >>

CleanupInit ==
  /\ cleanupPath \in {<<"d", "s">>, <<"e", "s">>}
  /\ cleanupFs \in FsStates
  /\ cleanupCalls = << >>

CallCleanup ==
  /\ Len(cleanupCalls) < MaxCleanupCalls
  /\ \E fault \in CleanupFaults :
       LET cleaned == cleanup(cleanupFs, cleanupPath, fault)
       IN  /\ cleanupFs' = cleaned.fs
           /\ cleanupCalls' =
                Append(cleanupCalls,
                  [before |-> cleanupFs, after |-> cleaned.fs,
                   fault |-> fault, warned |-> cleaned.warned,
                   raised |-> cleaned.raised])
  /\ UNCHANGED cleanupPath
  /\ UNCHANGED notCleanupVars

(***************************************************************************)
(* Chain orchestrator: runAction and runChainedActions                     *)
(* (src/src/actions/actionService.ts).  Action ids and parameter names are *)
(* opaque and written as plain strings; stdout is a character sequence.    *)
(* executor.execute is the collaborator: a call is logged in executions    *)
(* when it is made and its outcome is filled in when it settles.           *)
(***************************************************************************)
ActionIds == {"A", "B", "C"}
ChainLinks ==
  {[targetActionId |-> t, passOutputAs |-> p] :
     t \in ActionIds, p \in {None, Some("p")}}
Chains == SeqsUpTo(ChainLinks, MaxChain)

NoResult == [kind |-> "none", exitCode |-> None, stdout |-> << >>]
Threw == [kind |-> "error", exitCode |-> None, stdout |-> << >>]
Exited(code, out) == [kind |-> "result", exitCode |-> code, stdout |-> out]
Stdouts == {<< >>, <<"o", "\n">>}
\* what one executor.execute call can settle with
Outcomes ==
  {Exited(Some(0), out) : out \in Stdouts}
    \cup {Exited(Some(2), << >>), Exited(None, << >>), Threw}

Message(level, text, subject) ==
  [level |-> level, text |-> text, subject |-> subject]

\* result.exitCode ?? 0 compared with 0: a null exit code passes
RootSucceededOrNull(res) ==
  res.exitCode = Some(0) \/ res.exitCode = None

\* result.exitCode === 0 (line 185)
RootSucceeded(res) == res.exitCode = Some(0)

\* if (previousResult.exitCode): a null exit code does not halt
HaltsOnTruthyCode(res) == res.exitCode # None /\ res.exitCode # Some(0)

\* previousResult.exitCode !== 0 (line 452)
HaltsChain(res) == res.exitCode # Some(0)

\* new Set<string>(): the root is not seeded
InitialVisitedEmpty(act) == {}

\* new Set<string>([action.id]) (line 428)
InitialVisited(act) == {act.id}

\* the override map of a link (lines 445-448); an empty alias is falsy
ChainOverrides(link, prev) ==
  IF link.passOutputAs # None /\ link.passOutputAs # Some("")
  THEN [n \in {Get(link.passOutputAs)} |-> prepareChainedOutput(prev.stdout)]
  ELSE << >>

\* one call of executor.execute; runAction leaves forceOutputChannel out
\* (line 183)
Execution(id, overrides, ctx) ==
  [actionId |-> id, overrides |-> overrides, context |-> ctx,
   forceOutputChannel |-> None, outcome |-> NoResult]

\* runInOutputChannel of the loaded definitions: B asks for the channel
RunInOutputChannel(id) == id = "B"

\* the chained call is forced as the root is
ForceAsRoot(nextAction, rootId) == RunInOutputChannel(rootId)

\* the fourth argument of the chained call (line 451):
\* nextAction.runInOutputChannel
ForceOutputChannel(nextAction, rootId) == RunInOutputChannel(nextAction)

\* a chained call of executor.execute (line 451)
LinkExecution(id, overrides, ctx, rootId) ==
  [Execution(id, overrides, ctx) EXCEPT
     !.forceOutputChannel = Some(ForceOutputChannel(id, rootId))]

\* The editor window: no editor, or an editor on EditorFile with a selection
\* and a cursor line.
WorkspaceRoot == <<"/", "w">>
EditorFile == <<"/", "w", "/", "f">>
ExplorerFile == <<"/", "w", "/", "g">>
ClipboardText == <<"c">>
NoEditor == [open |-> FALSE, uri |-> << >>, selection |-> << >>, line |-> 0]
EditorStates ==
  { NoEditor,
    [open |-> TRUE, uri |-> EditorFile, selection |-> <<"s">>, line |-> 4] }
\* the overrides the run command passes: nothing, or the explorer's selection
ContextOverrides ==
  {[explorerSelection |-> None], [explorerSelection |-> Some(ExplorerFile)]}

\* getSelectedText, lines 568-579
getSelectedText(editor) ==
  IF ~editor.open THEN None
  ELSE IF editor.selection = << >> THEN None
  ELSE Some(editor.selection)
\* workspace.getWorkspaceFolder(uri)?.uri with the one folder WorkspaceRoot
getWorkspaceFolder(uri) ==
  IF /\ Len(uri) > Len(WorkspaceRoot)
     /\ SubSeq(uri, 1, Len(WorkspaceRoot) + 1) = WorkspaceRoot \o <<"/">>
  THEN Some(WorkspaceRoot) ELSE None
\* path.relative(folder, file) for a file below the folder
PathRelative(folder, file) == SubSeq(file, Len(folder) + 2, Len(file))

\* buildExecutionContext, lines 393-417
buildExecutionContext(overrides, editor) ==
  LET activeUri == IF editor.open THEN Some(editor.uri) ELSE None
      explorerSelection == overrides.explorerSelection
      focusUri == IF explorerSelection # None THEN explorerSelection
                  ELSE activeUri
      workspaceFolder == IF focusUri # None
                         THEN getWorkspaceFolder(Get(focusUri))
                         ELSE Some(WorkspaceRoot)
  IN  [workspaceFolder |-> workspaceFolder,
       activeFile |-> activeUri,
       relativeFile |->
         IF focusUri # None /\ workspaceFolder # None
         THEN Some(PathRelative(Get(workspaceFolder), Get(focusUri)))
         ELSE None,
       selectedText |-> getSelectedText(editor),
       clipboardText |-> Some(ClipboardText),
       lineNumber |-> IF editor.open THEN Some(editor.line + 1) ELSE None,
       explorerSelection |-> explorerSelection]

\* every chained execute call gets a context captured anew from the editor
LinkContextRecaptured(baseContext, editor) ==
  buildExecutionContext([explorerSelection |-> baseContext.explorerSelection],
                        editor)

\* the context runChainedActions hands to execute (line 451): baseContext
LinkContext(baseContext, editor) == baseContext

\* the promise of the last call is never awaited
SettleUnawaited(execs, outcome) == execs

\* the last call of the log settles
Settle(execs, outcome) ==
  [execs EXCEPT ![Len(execs)].outcome = outcome]

ChainIdle ==
  /\ activeActions = {}
  /\ chainPc = "off"
  /\ rootAction = [id |-> "", name |-> "", chain |-> << >>]
  /\ linkIndex = 0
  /\ visited = {}
  /\ previousResult = NoResult
  /\ executions = << >>
  /\ messages = << >>
  /\ editorState = NoEditor
  /\ context = EmptyContext

ChainInit ==
  /\ activeActions \in SUBSET ActionIds
  /\ chainPc = "idle"
  /\ rootAction = [id |-> "", name |-> "", chain |-> << >>]
  /\ linkIndex = 0
  /\ visited = {}
  /\ previousResult = NoResult
  /\ executions = << >>
  /\ messages = << >>
  /\ editorState \in EditorStates
  /\ context = EmptyContext

\* the user moves the cursor, changes the selection, closes or opens the
\* editor while an execute call is awaited
EditorChanges ==
  /\ chainPc \in {"root", "link"}
  /\ \E editor \in EditorStates :
       /\ editor # editorState
       /\ editorState' = editor
  /\ UNCHANGED <<activeActions, chainPc, rootAction, linkIndex, visited,
                 previousResult, executions, messages, context>>
  /\ UNCHANGED notChainVars

\* handleStoreUpdate and applyActions, lines 344-353: the store reports a
\* new set of actions while an execute call is awaited
HandleStoreUpdate ==
  /\ chainPc \in {"root", "link"}
  /\ \E loaded \in SUBSET ActionIds :
       /\ loaded # activeActions
       /\ activeActions' = loaded
  /\ UNCHANGED <<chainPc, rootAction, linkIndex, visited, previousResult,
                 executions, messages>>
  /\ UNCHANGED <<editorState, context>>
  /\ UNCHANGED notChainVars

\* runAction, lines 175-179: the id is not among the loaded actions
RunActionNotFound ==
  /\ chainPc = "idle"
  /\ \E actionId \in ActionIds :
       /\ actionId \notin activeActions
       /\ messages' =
            Append(messages, Message("warning", "Action not found", actionId))
  /\ chainPc' = "done"
  /\ UNCHANGED <<activeActions, rootAction, linkIndex, visited,
                 previousResult, executions>>
  /\ UNCHANGED <<editorState, context>>
  /\ UNCHANGED notChainVars

\* runAction, lines 175-183: the loaded definition is read, with the chain
\* it holds, and executor.execute is called for it
RunAction ==
  /\ chainPc = "idle"
  /\ \E actionId \in activeActions, chain \in Chains,
        contextOverrides \in ContextOverrides :
       LET captured == buildExecutionContext(contextOverrides, editorState)
       IN  /\ rootAction' =
                [id |-> actionId, name |-> actionId, chain |-> chain]
           /\ context' = captured
           /\ executions' =
                Append(executions, Execution(actionId, << >>, captured))
  /\ chainPc' = "root"
  /\ UNCHANGED <<activeActions, linkIndex, visited, previousResult, messages,
                 editorState>>
  /\ UNCHANGED notChainVars

\* runAction, lines 191-193: execute throws for the root
RootThrows ==
  /\ chainPc = "root"
  /\ executions' = Settle(executions, Threw)
  /\ messages' =
       Append(messages, Message("error", "Failed to run action", rootAction.name))
  /\ chainPc' = "done"
  /\ UNCHANGED <<activeActions, rootAction, linkIndex, visited, previousResult>>
  /\ UNCHANGED <<editorState, context>>
  /\ UNCHANGED notChainVars

\* runAction, lines 185-190, with runChainedActions to its loop (424-429)
RootSettles ==
  /\ chainPc = "root"
  /\ \E res \in Outcomes \ {Threw} :
       /\ executions' = Settle(executions, res)
       /\ IF RootSucceeded(res)
          THEN IF rootAction.chain = << >>
               THEN /\ messages' =
                         Append(messages,
                           Message("info", "completed successfully",
                                   rootAction.name))
                    /\ chainPc' = "done"
                    /\ UNCHANGED <<visited, previousResult, linkIndex>>
               ELSE /\ visited' = InitialVisited(rootAction)
                    /\ previousResult' = res
                    /\ linkIndex' = 1
                    /\ chainPc' = "loop"
                    /\ UNCHANGED messages
          ELSE /\ messages' =
                    Append(messages,
                      Message("warning", "exited with code", rootAction.name))
               /\ chainPc' = "done"
               /\ UNCHANGED <<visited, previousResult, linkIndex>>
  /\ UNCHANGED <<activeActions, rootAction>>
  /\ UNCHANGED <<editorState, context>>
  /\ UNCHANGED notChainVars

\* what runAction shows once runChainedActions has returned (line 187)
ChainReturned(msgs) ==
  Append(msgs, Message("info", "completed successfully", rootAction.name))

\* the for loop has no link left
ChainExhausted ==
  /\ chainPc = "loop"
  /\ linkIndex > Len(rootAction.chain)
  /\ messages' = ChainReturned(messages)
  /\ chainPc' = "done"
  /\ UNCHANGED <<activeActions, rootAction, linkIndex, visited,
                 previousResult, executions>>
  /\ UNCHANGED <<editorState, context>>
  /\ UNCHANGED notChainVars

\* lines 432-435: the target was visited already
ChainCycle ==
  /\ chainPc = "loop"
  /\ linkIndex <= Len(rootAction.chain)
  /\ rootAction.chain[linkIndex].targetActionId \in visited
  /\ messages' =
       ChainReturned(
         Append(messages,
           Message("warning", "Detected cyclical action chain",
                   rootAction.chain[linkIndex].targetActionId)))
  /\ chainPc' = "done"
  /\ UNCHANGED <<activeActions, rootAction, linkIndex, visited,
                 previousResult, executions>>
  /\ UNCHANGED <<editorState, context>>
  /\ UNCHANGED notChainVars

\* a missing target is warned about and skipped (continue for break)
ChainTargetSkipped ==
  /\ chainPc = "loop"
  /\ linkIndex <= Len(rootAction.chain)
  /\ rootAction.chain[linkIndex].targetActionId \notin visited
  /\ rootAction.chain[linkIndex].targetActionId \notin activeActions
  /\ messages' =
       Append(messages,
         Message("warning", "Chained action not found",
                 rootAction.chain[linkIndex].targetActionId))
  /\ linkIndex' = linkIndex + 1
  /\ UNCHANGED <<activeActions, chainPc, rootAction, visited,
                 previousResult, executions>>
  /\ UNCHANGED <<editorState, context>>
  /\ UNCHANGED notChainVars

\* lines 437-441: the target is not among the loaded actions
ChainTargetMissing ==
  /\ chainPc = "loop"
  /\ linkIndex <= Len(rootAction.chain)
  /\ rootAction.chain[linkIndex].targetActionId \notin visited
  /\ rootAction.chain[linkIndex].targetActionId \notin activeActions
  /\ messages' =
       ChainReturned(
         Append(messages,
           Message("warning", "Chained action not found",
                   rootAction.chain[linkIndex].targetActionId)))
  /\ chainPc' = "done"
  /\ UNCHANGED <<activeActions, rootAction, linkIndex, visited,
                 previousResult, executions>>
  /\ UNCHANGED <<editorState, context>>
  /\ UNCHANGED notChainVars

\* lines 443-451: the target is marked visited and executed with the
\* override map of its link
ChainExecute ==
  /\ chainPc = "loop"
  /\ linkIndex <= Len(rootAction.chain)
  /\ LET link == rootAction.chain[linkIndex]
     IN  /\ link.targetActionId \notin visited
         /\ link.targetActionId \in activeActions
         /\ visited' = visited \cup {link.targetActionId}
         /\ executions' =
              Append(executions,
                LinkExecution(link.targetActionId,
                              ChainOverrides(link, previousResult),
                              LinkContext(context, editorState),
                              rootAction.id))
  /\ chainPc' = "link"
  /\ UNCHANGED <<activeActions, rootAction, linkIndex, previousResult,
                 messages>>
  /\ UNCHANGED <<editorState, context>>
  /\ UNCHANGED notChainVars

\* lines 455-458: execute throws for the link
LinkThrows ==
  /\ chainPc = "link"
  /\ executions' = Settle(executions, Threw)
  /\ messages' =
       ChainReturned(
         Append(messages,
           Message("error", "Failed to run chained action",
                   rootAction.chain[linkIndex].targetActionId)))
  /\ chainPc' = "done"
  /\ UNCHANGED <<activeActions, rootAction, linkIndex, visited, previousResult>>
  /\ UNCHANGED <<editorState, context>>
  /\ UNCHANGED notChainVars

\* lines 451-454: the link settles with a result
LinkSettles ==
  /\ chainPc = "link"
  /\ \E res \in Outcomes \ {Threw} :
       /\ executions' = Settle(executions, res)
       /\ previousResult' = res
       /\ IF HaltsChain(res)
          THEN /\ messages' = ChainReturned(messages)
               /\ chainPc' = "done"
               /\ UNCHANGED linkIndex
          ELSE /\ linkIndex' = linkIndex + 1
               /\ chainPc' = "loop"
               /\ UNCHANGED messages
  /\ UNCHANGED <<activeActions, rootAction, visited>>
  /\ UNCHANGED <<editorState, context>>
  /\ UNCHANGED notChainVars

(***************************************************************************)
(* actionStore.ts and the operations of actionService.ts that write it.    *)
(* The operations here are started one user event after the other: each   *)
(* reads the cache when getAll returns and replaces it when persist        *)
(* starts, before the handler of the next event runs.  Operations called   *)
(* in the same turn are the subject of a section of their own below.       *)
(***************************************************************************)
\* value.trim(), for the space character
RECURSIVE TrimStart(_)
TrimStart(str) ==
  IF str # << >> /\ Head(str) = " " THEN TrimStart(Tail(str)) ELSE str
RECURSIVE TrimEnd(_)
TrimEnd(str) ==
  IF str # << >> /\ str[Len(str)] = " "
  THEN TrimEnd(SubSeq(str, 1, Len(str) - 1)) ELSE str
Trim(str) == TrimEnd(TrimStart(str))

StoredIds(actions) == {actions[k].id : k \in 1..Len(actions)}

\* the action is pushed whether or not its id is stored
SaveAlwaysPushes(existing, action) == Append(existing, action)

\* ActionStore.save (lines 33-43): what it hands to persist
save(existing, action) ==
  LET index == {k \in 1..Len(existing) : existing[k].id = action.id}
  IN  IF index # {} THEN [existing EXCEPT ![SetMin(index)] = action]
      ELSE Append(existing, action)

\* ActionStore.delete (lines 45-49)
delete(existing, actionId) ==
  SelectSeq(existing, LAMBDA item : item.id # actionId)

\* randomUUID(): the k-th identifier it hands out; no file and no store
\* holds an identifier before randomUUID has returned it
Uuid(k) == <<"u", Digits[k + 1]>>

\* importActions, lines 271-273: candidate.id.trim() when the id is a
\* non-blank string
OriginalId(candidate) ==
  IF candidate.id # None /\ Trim(Get(candidate.id)) # << >>
  THEN Some(Trim(Get(candidate.id))) ELSE None
\* idOccurrences (lines 260-266)
IdOccurrences(candidates, key) ==
  Cardinality({k \in 1..Len(candidates) :
                 OriginalId(candidates[k]) = Some(key)})
\* an imported action keeps its id unless the file repeats it
RECURSIVE QueueIgnoringStore(_, _, _, _)
QueueIgnoringStore(rest, candidates, usedIds, next) ==
  IF rest = << >> THEN << >>
  ELSE LET originalId == OriginalId(Head(rest))
           fresh == \/ originalId = None
                    \/ IdOccurrences(candidates, Get(originalId)) > 1
           actionId == IF fresh THEN Uuid(next) ELSE Get(originalId)
       IN  <<actionId>>
             \o QueueIgnoringStore(Tail(rest), candidates,
                                   usedIds \cup {actionId},
                                   IF fresh THEN next + 1 ELSE next)
\* the loop that fills queue (lines 270-285): the new ids in order
RECURSIVE Queue(_, _, _, _)
Queue(rest, candidates, usedIds, next) ==
  IF rest = << >> THEN << >>
  ELSE LET originalId == OriginalId(Head(rest))
           fresh == \/ originalId = None
                    \/ Get(originalId) \in usedIds
                    \/ IdOccurrences(candidates, Get(originalId)) > 1
           actionId == IF fresh THEN Uuid(next) ELSE Get(originalId)
       IN  <<actionId>>
             \o Queue(Tail(rest), candidates, usedIds \cup {actionId},
                      IF fresh THEN next + 1 ELSE next)
\* importActions, lines 245-321: the list handed to store.overwrite
Imported(existing, candidates, next) ==
  LET newIds == Queue(candidates, candidates, StoredIds(existing), next)
  IN  [k \in 1..Len(candidates) |->
         [id |-> newIds[k], name |-> candidates[k].name]]
UuidsTaken(existing, candidates, next) ==
  Cardinality(StoredIds(Imported(existing, candidates, next))
                \cap {Uuid(k) : k \in 0..9})

\* Inputs: stored identifiers, the names an editor draft carries, and the
\* candidates of an import file (an id that is missing, blank, stored, or
\* padded with a space)
IdA == <<"A">>
IdB == <<"B">>
DraftNames == {"n1", "n2"}
Candidates ==
  {[id |-> i, name |-> "n2"] :
     i \in {None, Some(<<" ">>), Some(IdA), Some(<<" ", "A">>), Some(IdB)}}
ImportFiles == SeqsUpTo(Candidates, MaxImport) \ {<< >>}
InitialStores ==
  { << >>,
    <<[id |-> IdA, name |-> "n1"]>>,
    <<[id |-> IdA, name |-> "n1"], [id |-> IdB, name |-> "n1"]>> }
\* what is kept of a save call: whether the id was stored before it, and
\* whether the call replaced that entry where it was or else added one entry
\* at the end, touching nothing else
SaveCall(before, action, after) ==
  LET held == {k \in 1..Len(before) : before[k].id = action.id}
  IN  [held |-> held # {},
       upserted |->
         IF held # {}
         THEN /\ Len(after) = Len(before)
              /\ \A k \in 1..Len(before) :
                   after[k] = IF k \in held THEN action ELSE before[k]
         ELSE /\ Len(after) = Len(before) + 1
              /\ SubSeq(after, 1, Len(before)) = before
              /\ after[Len(after)] = action]
KnownIds == {IdA, IdB} \cup {Uuid(k) : k \in 0..(uuids - 1)}

StoreIdle ==
  /\ cache = << >>
  /\ uuids = 0
  /\ lastSave = None

StoreInit ==
  /\ cache \in InitialStores
  /\ uuids = 0
  /\ lastSave = None

\* persist, lines 66-70, sets the cache before its first await, and the
\* operation calls it in the microtask that follows the return of getAll:
\* with one operation per user event, it reads and replaces the cache in
\* one step
Submit(next) ==
  /\ Len(next) <= MaxStore
  /\ cache' = next

\* createAction, lines 69-105
CreateAction ==
  /\ uuids < MaxUuid
  /\ \E name \in DraftNames :
       LET action == [id |-> Uuid(uuids), name |-> name]
       IN  /\ Submit(save(cache, action))
           /\ lastSave' = Some(SaveCall(cache, action, save(cache, action)))
  /\ uuids' = uuids + 1
  /\ UNCHANGED notStoreVars

\* editAction, lines 107-146: the edited action was loaded when the editor
\* opened and may have been deleted since
EditAction ==
  /\ \E actionId \in KnownIds, name \in DraftNames :
       LET action == [id |-> actionId, name |-> name]
       IN  /\ Submit(save(cache, action))
           /\ lastSave' = Some(SaveCall(cache, action, save(cache, action)))
  /\ UNCHANGED uuids
  /\ UNCHANGED notStoreVars

\* deleteAction, lines 148-172
DeleteAction ==
  /\ \E actionId \in KnownIds : Submit(delete(cache, actionId))
  /\ UNCHANGED <<uuids, lastSave>>
  /\ UNCHANGED notStoreVars

\* importActions, lines 245-321, with a file that holds a list
ImportActions ==
  /\ \E parsed \in ImportFiles :
       /\ uuids + UuidsTaken(cache, parsed, uuids) <= MaxUuid
       /\ Submit(cache \o Imported(cache, parsed, uuids))
       /\ uuids' = uuids + UuidsTaken(cache, parsed, uuids)
  /\ UNCHANGED lastSave
  /\ UNCHANGED notStoreVars


(***************************************************************************)
(* Runs started by the run command.  handleRunCommand                      *)
(* (extensionManager.ts, lines 83-101) calls runAction without awaiting it *)
(* (void), and neither runAction (actionService.ts, lines 174-194) nor     *)
(* execute keeps a flag or a queue: every invocation of the command starts *)
(* a run of its own, suspended at its awaits while the others proceed.     *)
(***************************************************************************)
MaxRuns == 2
RunIds == 1..MaxRuns

\* the run's execute call for the root (link 0) or a chain link is awaited
Executing(r) == runPc[r] = "executing"
\* a run is in progress from the command to the return of runAction
InProgress(r) == runPc[r] \in {"context", "executing"}

RunsIdle ==
  /\ runPc = << >>
  /\ runChain = << >>
  /\ runLink = << >>

RunsInit ==
  /\ runPc = [r \in RunIds |-> "idle"]
  /\ runChain = [r \in RunIds |-> 0]
  /\ runLink = [r \in RunIds |-> 0]

\* handleRunCommand, lines 83-101, and runAction to its first await (line
\* 181): the action is loaded, with a chain of some length
HandleRunCommand ==
  /\ \E r \in RunIds, links \in 0..MaxChain :
       /\ runPc[r] = "idle"
       /\ runPc' = [runPc EXCEPT ![r] = "context"]
       /\ runChain' = [runChain EXCEPT ![r] = links]
  /\ UNCHANGED runLink
  /\ UNCHANGED notRunsVars

\* runAction, lines 181-183: the context is there, execute is called
RunExecutesRoot ==
  /\ \E r \in RunIds :
       /\ runPc[r] = "context"
       /\ runPc' = [runPc EXCEPT ![r] = "executing"]
  /\ UNCHANGED <<runChain, runLink>>
  /\ UNCHANGED notRunsVars

\* runAction, lines 183-193, and runChainedActions, lines 431-459: the
\* awaited execute settles; after exit code 0 the next link, if any, is
\* executed, otherwise the run returns
RunExecuteSettles ==
  /\ \E r \in RunIds, succeeded \in BOOLEAN :
       /\ runPc[r] = "executing"
       /\ IF succeeded /\ runLink[r] < runChain[r]
          THEN /\ runLink' = [runLink EXCEPT ![r] = runLink[r] + 1]
               /\ UNCHANGED runPc
          ELSE /\ runPc' = [runPc EXCEPT ![r] = "done"]
               /\ UNCHANGED runLink
  /\ UNCHANGED runChain
  /\ UNCHANGED notRunsVars

(***************************************************************************)
(* The editor's save path: the webview's sanitizeDraftBeforeSave           *)
(* (src/unnamed/part_006, lines 597-637), whose payload createAction and   *)
(* editAction store (actionService.ts, lines 69-105 and 107-146).          *)
(***************************************************************************)
\* [\w-]
IsWordOrHyphen(c) ==
  c \in Letters \cup {Digits[k] : k \in 1..10} \cup {"_", "-"}

\* the index of the last character of the greedy run [\w-]+ that starts at
\* i, or i - 1 when there is none
RECURSIVE WordRunEnd(_, _)
WordRunEnd(src, i) ==
  IF i <= Len(src) /\ IsWordOrHyphen(src[i]) THEN WordRunEnd(src, i + 1)
  ELSE i - 1

\* /\$\{([\w-]+)(?::[^}]+)?}/ tried at index i: the index of the closing
\* brace of the match, or 0.  After the name comes either the closing brace
\* or a colon, at least one character that is not a closing brace, and the
\* first closing brace after them.
DraftTokenEnd(src, i) ==
  IF i + 3 <= Len(src) /\ src[i] = "$" /\ src[i + 1] = "{"
  THEN LET w == WordRunEnd(src, i + 2)
           closers == {j \in (w + 3)..Len(src) : src[j] = "}"}
       IN  IF w < i + 2 \/ w = Len(src) THEN 0
           ELSE IF src[w + 1] = "}" THEN w + 1
           ELSE IF src[w + 1] = ":" /\ w + 2 <= Len(src) /\ src[w + 2] # "}"
                   /\ closers # {}
           THEN SetMin(closers)
           ELSE 0
  ELSE 0

\* draft.script.replace(/\$\{([\w-]+)(?::[^}]+)?}/g, "${$1}"), line 601:
\* each match is replaced by its name between the delimiters
RECURSIVE SanitizeFrom(_, _)
SanitizeFrom(src, i) ==
  IF i > Len(src) THEN << >>
  ELSE LET e == DraftTokenEnd(src, i)
       IN  IF e = 0 THEN <<src[i]>> \o SanitizeFrom(src, i + 1)
           ELSE <<"$", "{">> \o SubSeq(src, i + 2, WordRunEnd(src, i + 2))
                  \o <<"}">> \o SanitizeFrom(src, e + 1)

sanitizeScript(src) == SanitizeFrom(src, 1)

\* Inputs: scripts over the token alphabet, and scripts made of the token
\* the README gives for declaring a parameter, a token without arguments and
\* plain text.
DeclaringToken ==
  TokenText(ParamKey \o <<":", "N", ":", "d", ":", "p">>)
DraftFragments == {DeclaringToken, TokenText(<<"a">>), <<"e", " ">>}
DraftScripts ==
  SeqsUpTo(TemplateAlphabet, MaxTextLen)
    \cup {Flatten(p) : p \in SeqsUpTo(DraftFragments, MaxParts)}

SaveIdle ==
  /\ draftScript = << >>
  /\ storedScript = None

SaveInit ==
  /\ draftScript \in DraftScripts
  /\ storedScript = None

\* the Save button (part_006, line 173) and createAction, line 89: the
\* action's script is the script of the sanitized draft
SaveDraft ==
  /\ storedScript = None
  /\ storedScript' = Some(sanitizeScript(draftScript))
  /\ UNCHANGED draftScript
  /\ UNCHANGED notSaveVars

(***************************************************************************)
(* One call of replaceTokens (part_001, lines 336-364) on a text of one    *)
(* token, for an action that declares parameters, a captured context and a *)
(* map of resolved values.                                                 *)
(***************************************************************************)
TokenKeys ==
  { ParamKey \o <<":">> \o NameP, ParamKey,
    ParamKey \o <<":">> \o SelectedTextName,
    SelectedTextName, LineNumberName, NameP, NameQ }
TokenSources == {TokenText(k) : k \in TokenKeys}
TokenContexts ==
  {[EmptyContext EXCEPT !.selectedText = s, !.lineNumber = n] :
     s \in {None, Some(<< >>), Some(<<"s">>)}, n \in {None, Some(0), Some(7)}}
\* what the parameter map holds for a name, when it holds the name
ValueOf(n) ==
  CASE n = NameP -> <<"v">>
    [] n = SelectedTextName -> <<"t">>
    [] n = LineNumberName -> <<"n">>
TokenNames == <<NameP, SelectedTextName, LineNumberName>>
Chosen(names) == SelectSeq(TokenNames, LAMBDA n : n \in names)
TokenActions ==
  {[language |-> t.language, platform |-> t.platform,
    bashImplementation |-> t.bashImplementation,
    parameters |-> [k \in 1..Len(Chosen(names)) |-> [name |-> Chosen(names)[k]]]] :
     t \in {RT \in RenderTargets : RT.bashImplementation # Some("wsl")},
     names \in SUBSET {NameP, SelectedTextName, LineNumberName}}
TokenValueMaps ==
  {[k \in 1..Len(Chosen(names)) |->
      [key |-> Chosen(names)[k], value |-> ValueOf(Chosen(names)[k])]] :
     names \in SUBSET {NameP, SelectedTextName, LineNumberName}}

TokenIdle ==
  /\ tokenSource = << >>
  /\ tokenContext = EmptyContext
  /\ tokenAction = [language |-> "bash", platform |-> "linux", bashImplementation |-> None, parameters |-> << >>]
  /\ tokenValues = << >>
  /\ tokenRendered = None

TokenInit ==
  /\ tokenSource \in TokenSources
  /\ tokenContext \in TokenContexts
  /\ tokenAction \in TokenActions
  /\ tokenValues \in TokenValueMaps
  /\ tokenRendered = None

\* prepareExecutionPlan, line 236: the script is rendered
ReplaceTokens ==
  /\ tokenRendered = None
  /\ tokenRendered' =
       Some(replaceTokens(tokenSource,
                          [language |-> tokenAction.language,
                           parameters |-> tokenAction.parameters],
                          [context |-> tokenContext,
                           parameterValues |-> tokenValues],
                          tokenAction.bashImplementation, "script",
                          [platform |-> tokenAction.platform,
                           workspaceFolder |-> None, processEnv |-> << >>]))
  /\ UNCHANGED <<tokenSource, tokenContext, tokenAction, tokenValues>>
  /\ UNCHANGED notTokenVars

(***************************************************************************)
(* process.env across runs.  buildEnvironment (part_001, lines 267-315)    *)
(* starts from { ...process.env, SNIP_IT_ACTION_ID: action.id } and makes  *)
(* every assignment on that object; createSpawnOptions hands it to spawn.  *)
(***************************************************************************)
MaxEnvRuns == 2

\* const env = process.env: the assignments to env are assignments to
\* process.env
ProcessEnvAliased(before, built) == built.env

\* the object spread of line 273 copies the entries of process.env into a
\* new object, so process.env is after the call what it was before it
ProcessEnvAfter(before, built) == before

HostEnvironments ==
  { << >>,
    <<[key |-> KeyK, value |-> <<"h">>]>>,
    <<[key |-> <<"H">>, value |-> <<"h">>], [key |-> KeyK, value |-> <<"h">>]>> }
EnvSecretStores == {<< >>, [k \in {"s1"} |-> <<"t">>]}
NotBuilt == [threw |-> FALSE, key |-> << >>, env |-> << >>]

EnvIdle ==
  /\ processEnv = << >>
  /\ childEnv = NotBuilt
  /\ envRuns = 0

EnvInit ==
  /\ processEnv \in HostEnvironments
  /\ childEnv = NotBuilt
  /\ envRuns = 0

\* execute, line 144, through createSpawnOptions (lines 251-265): one more
\* run builds its environment, or fails on a secret that is not stored
BuildEnvironment ==
  /\ envRuns < MaxEnvRuns
  /\ \E entries \in SeqsUpTo(LogEnvEntries, MaxEnv),
        parameterValues \in ParameterObjects, target \in LogTargets,
        storage \in EnvSecretStores :
       LET built ==
             buildEnvironment(LogActionWith(entries, target),
                              [context |-> EmptyContext,
                               parameterValues |-> parameterValues],
                              WorkingDirectoryOn(target),
                              target.bashImplementation,
                              [platform |-> target.platform,
                               workspaceFolder |-> None,
                               processEnv |-> processEnv],
                              storage)
       IN  /\ childEnv' = built
           /\ processEnv' = ProcessEnvAfter(processEnv, built)
  /\ envRuns' = envRuns + 1
  /\ UNCHANGED notEnvVars

(***************************************************************************)
(* The Windows bash lookup (part_001, lines 569-608) behind getCommand     *)
(* (lines 381-403).  resolveBashCommand is synchronous (spawnSync), so a   *)
(* call runs from its test of the cache to its return in one step.         *)
(***************************************************************************)
MaxBashCalls == 3

\* String.prototype.toLowerCase
ToLowerCase(str) == [k \in 1..Len(str) |-> ToLowerChar(str[k])]

\* stdout.split(/\r?\n/)
RECURSIVE SplitLinesFrom(_, _, _)
SplitLinesFrom(s, i, cur) ==
  IF i > Len(s) THEN <<cur>>
  ELSE IF s[i] = "\n" THEN <<cur>> \o SplitLinesFrom(s, i + 1, << >>)
  ELSE IF s[i] = "\r" /\ i < Len(s) /\ s[i + 1] = "\n"
  THEN <<cur>> \o SplitLinesFrom(s, i + 2, << >>)
  ELSE SplitLinesFrom(s, i + 1, Append(cur, s[i]))
SplitLines(s) == SplitLinesFrom(s, 1, << >>)

\* .map(line => line.trim()).filter(line => line.length > 0)
WhereCandidates(stdout) ==
  SelectSeq([k \in 1..Len(SplitLines(stdout)) |-> Trim(SplitLines(stdout)[k])],
            LAMBDA line : line # << >>)

System32Bash ==
  <<"\\", "s", "y", "s", "t", "e", "m", "3", "2", "\\", "b", "a", "s", "h",
    ".", "e", "x", "e">>
System32Wsl ==
  <<"\\", "s", "y", "s", "t", "e", "m", "3", "2", "\\", "w", "s", "l", ".",
    "e", "x", "e">>
GitBinBash ==
  <<"\\", "g", "i", "t", "\\", "b", "i", "n", "\\", "b", "a", "s", "h",
    ".", "e", "x", "e">>
GitUsrBinBash ==
  <<"\\", "g", "i", "t", "\\", "u", "s", "r", "\\", "b", "i", "n", "\\",
    "b", "a", "s", "h", ".", "e", "x", "e">>
BashWord == <<"b", "a", "s", "h">>

\* lines 588-596: the flavor of the first candidate
ImplementationOf(commandPath) ==
  LET lower == ToLowerCase(commandPath)
  IN  IF Contains(lower, System32Bash) \/ Contains(lower, System32Wsl)
      THEN "wsl"
      ELSE IF Contains(lower, GitBinBash) \/ Contains(lower, GitUsrBinBash)
      THEN "git-bash"
      ELSE "other"

FallbackBashInfo == [command |-> BashWord, implementation |-> "other"]

\* what spawnSync("where", ["bash"]) can answer
WslPath ==
  <<"C", ":", "\\", "W", "i", "n", "d", "o", "w", "s", "\\", "S", "y", "s",
    "t", "e", "m", "3", "2", "\\", "b", "a", "s", "h", ".", "e", "x", "e">>
GitPath ==
  <<"C", ":", "\\", "G", "i", "t", "\\", "b", "i", "n", "\\", "b", "a",
    "s", "h", ".", "e", "x", "e">>
MsysPath ==
  <<"C", ":", "\\", "m", "s", "y", "s", "\\", "b", "a", "s", "h", ".", "e",
    "x", "e">>
WhereOutputs ==
  { [threw |-> TRUE, status |-> 1, stdout |-> << >>],
    [threw |-> FALSE, status |-> 1, stdout |-> << >>],
    [threw |-> FALSE, status |-> 1, stdout |-> GitPath \o <<"\r", "\n">>],
    [threw |-> FALSE, status |-> 0, stdout |-> << >>],
    [threw |-> FALSE, status |-> 0, stdout |-> <<" ", "\r", "\n">>],
    [threw |-> FALSE, status |-> 0, stdout |-> WslPath \o <<"\r", "\n">>],
    [threw |-> FALSE, status |-> 0,
     stdout |-> GitPath \o <<"\r", "\n">> \o WslPath \o <<"\n">>],
    [threw |-> FALSE, status |-> 0, stdout |-> <<" ">> \o MsysPath] }

\* lines 579-607, the lookup itself
LookUpBash(where) ==
  IF ~where.threw /\ where.status = 0 /\ where.stdout # << >>
        /\ WhereCandidates(where.stdout) # << >>
  THEN [command |-> WhereCandidates(where.stdout)[1],
        implementation |-> ImplementationOf(WhereCandidates(where.stdout)[1])]
  ELSE FallbackBashInfo

\* a lookup that found nothing is not remembered
ResolveRetriesAfterFailure(cached, plat, where) ==
  IF cached # None
  THEN [info |-> Get(cached), cached |-> cached, lookups |-> 0]
  ELSE IF plat # "win32"
  THEN [info |-> [command |-> BashWord, implementation |-> "posix"],
        cached |-> Some([command |-> BashWord, implementation |-> "posix"]),
        lookups |-> 0]
  ELSE [info |-> LookUpBash(where),
        cached |-> IF LookUpBash(where) = FallbackBashInfo THEN None
                   ELSE Some(LookUpBash(where)),
        lookups |-> 1]

\* resolveBashCommand (lines 569-608): what it returns, what the cache is
\* afterwards and how many times it ran where
resolveBashCommand(cached, plat, where) ==
  IF cached # None
  THEN [info |-> Get(cached), cached |-> cached, lookups |-> 0]
  ELSE IF plat # "win32"
  THEN [info |-> [command |-> BashWord, implementation |-> "posix"],
        cached |-> Some([command |-> BashWord, implementation |-> "posix"]),
        lookups |-> 0]
  ELSE [info |-> LookUpBash(where), cached |-> Some(LookUpBash(where)),
        lookups |-> 1]

NoCommand == [command |-> << >>, implementation |-> "none"]

BashIdle ==
  /\ cachedBashInfo = None
  /\ whereOutput = [threw |-> TRUE, status |-> 1, stdout |-> << >>]
  /\ bashLookups = 0
  /\ lookedUp = << >>
  /\ bashCalls = 0
  /\ lastCommand = NoCommand

BashInit ==
  /\ cachedBashInfo = None
  /\ whereOutput \in WhereOutputs
  /\ bashLookups = 0
  /\ lookedUp = << >>
  /\ bashCalls = 0
  /\ lastCommand = NoCommand

\* bash is installed, removed or moved on the search path between two runs
SearchPathChanges ==
  /\ \E where \in WhereOutputs :
       /\ where # whereOutput
       /\ whereOutput' = where
  /\ UNCHANGED <<cachedBashInfo, bashLookups, lookedUp, bashCalls, lastCommand>>
  /\ UNCHANGED notBashVars

\* getCommand on win32 (lines 391-401) for a bash action
GetBashCommand ==
  /\ bashCalls < MaxBashCalls
  /\ LET resolved == resolveBashCommand(cachedBashInfo, "win32", whereOutput)
     IN  /\ cachedBashInfo' = resolved.cached
         /\ bashLookups' = bashLookups + resolved.lookups
         /\ lookedUp' = IF resolved.lookups = 1 THEN Append(lookedUp, whereOutput)
                        ELSE lookedUp
         /\ lastCommand' = resolved.info
  /\ bashCalls' = bashCalls + 1
  /\ UNCHANGED whereOutput
  /\ UNCHANGED notBashVars

\* getCommand for a node action (line 385)
GetNodeCommand ==
  /\ bashCalls < MaxBashCalls
  /\ lastCommand' = [command |-> <<"n", "o", "d", "e">>, implementation |-> "none"]
  /\ bashCalls' = bashCalls + 1
  /\ UNCHANGED <<cachedBashInfo, whereOutput, bashLookups, lookedUp>>
  /\ UNCHANGED notBashVars

(***************************************************************************)
(* Python interpreter discovery (part_001, lines 406-457) behind           *)
(* getCommand (lines 387-390), on a POSIX host.  A path is the sequence of *)
(* its segments, the root the empty sequence; path.dirname drops the last  *)
(* segment and gives the root for the root.                                *)
(***************************************************************************)
MaxDepth == 2

\* const candidates (line 428), in their order
VenvCandidates == <<".venv", "venv", "env", ".env", "virtualenv", "pyenv">>
\* path.join(base, "bin", "python") for base = path.join(directory, candidate)
CandidateExecutable(directory, candidate) ==
  directory \o <<candidate, "bin", "python">>
PyvenvCfg(directory) == directory \o <<"pyvenv.cfg">>
RootExecutable(directory) == directory \o <<"bin", "python">>

\* the marker file is looked for before the named subdirectories
InDirectoryMarkerFirst(directory, files) ==
  LET hits == {k \in 1..Len(VenvCandidates) :
                 CandidateExecutable(directory, VenvCandidates[k]) \in files}
  IN  IF PyvenvCfg(directory) \in files /\ RootExecutable(directory) \in files
      THEN Some(RootExecutable(directory))
      ELSE IF hits # {}
      THEN Some(CandidateExecutable(directory, VenvCandidates[SetMin(hits)]))
      ELSE None

\* findPythonInterpreterInDirectory (lines 427-457); fs.access succeeds for
\* the paths that exist
findPythonInterpreterInDirectory(directory, files) ==
  LET hits == {k \in 1..Len(VenvCandidates) :
                 CandidateExecutable(directory, VenvCandidates[k]) \in files}
  IN  IF hits # {}
      THEN Some(CandidateExecutable(directory, VenvCandidates[SetMin(hits)]))
      ELSE IF PyvenvCfg(directory) \in files /\ RootExecutable(directory) \in files
      THEN Some(RootExecutable(directory))
      ELSE None

\* Inputs: directories a, a/b, ... below the root, and in each directory on
\* the way one of a few layouts
DirectoryAt(depth) == [k \in 1..depth |-> <<"a", "b", "c", "d">>[k]]
Layouts ==
  { {},
    {<<".venv", "bin", "python">>},
    {<<"pyenv", "bin", "python">>, <<"venv", "bin", "python">>},
    {<<"pyvenv.cfg">>},
    {<<"pyvenv.cfg">>, <<"bin", "python">>},
    {<<"pyvenv.cfg">>, <<"bin", "python">>, <<"env", "bin", "python">>} }
FileSystems ==
  {UNION {{DirectoryAt(d) \o f : f \in layout[d]} : d \in 0..MaxDepth} :
     layout \in [0..MaxDepth -> Layouts]}
PythonWord == <<"python">>

PythonIdle ==
  /\ pyFiles = {}
  /\ pyStart = << >>
  /\ pyCurrent = << >>
  /\ pyVisited = << >>
  /\ pyPc = "off"
  /\ pyCommand = << >>

PythonInit ==
  /\ pyFiles \in FileSystems
  /\ pyStart \in {DirectoryAt(d) : d \in 0..MaxDepth}
  /\ pyCurrent = pyStart
  /\ pyVisited = << >>
  /\ pyPc = "loop"
  /\ pyCommand = << >>

\* one turn of the while loop (lines 410-422) that finds an interpreter
\* (getCommand, line 389, returns it)
PythonFound ==
  /\ pyPc = "loop"
  /\ pyCurrent \notin {pyVisited[k] : k \in 1..Len(pyVisited)}
  /\ findPythonInterpreterInDirectory(pyCurrent, pyFiles) # None
  /\ pyVisited' = Append(pyVisited, pyCurrent)
  /\ pyCommand' = Get(findPythonInterpreterInDirectory(pyCurrent, pyFiles))
  /\ pyPc' = "done"
  /\ UNCHANGED <<pyFiles, pyStart, pyCurrent>>
  /\ UNCHANGED notPythonVars

\* one turn that finds nothing and moves to the parent
PythonAscends ==
  /\ pyPc = "loop"
  /\ pyCurrent \notin {pyVisited[k] : k \in 1..Len(pyVisited)}
  /\ findPythonInterpreterInDirectory(pyCurrent, pyFiles) = None
  /\ Dirname(pyCurrent) # pyCurrent
  /\ pyVisited' = Append(pyVisited, pyCurrent)
  /\ pyCurrent' = Dirname(pyCurrent)
  /\ UNCHANGED <<pyFiles, pyStart, pyPc, pyCommand>>
  /\ UNCHANGED notPythonVars

\* the loop ends at the root (line 418) or at a directory seen before
\* (line 410): undefined is returned and getCommand answers python
PythonNotFound ==
  /\ pyPc = "loop"
  /\ \/ pyCurrent \in {pyVisited[k] : k \in 1..Len(pyVisited)}
     \/ /\ findPythonInterpreterInDirectory(pyCurrent, pyFiles) = None
        /\ Dirname(pyCurrent) = pyCurrent
  /\ pyVisited' =
       IF pyCurrent \in {pyVisited[k] : k \in 1..Len(pyVisited)}
       THEN pyVisited ELSE Append(pyVisited, pyCurrent)
  /\ pyCommand' = PythonWord
  /\ pyPc' = "done"
  /\ UNCHANGED <<pyFiles, pyStart, pyCurrent>>
  /\ UNCHANGED notPythonVars

(***************************************************************************)
(* ProcessTerminal (part_001, lines 37-120): the pseudo-terminal of one    *)
(* run.  The host calls open once, when the terminal is shown, and close   *)
(* when the user closes it; the handlers of the child call dispose as      *)
(* well.  The record pty holds the fields of the object, the state of the  *)
(* child and the counts of the signals sent and of the close events fired. *)
(***************************************************************************)
MaxDisposeCalls == 3
MaxChunks == 1

NewTerminal ==
  [disposed |-> FALSE, process |-> None, writeEmitter |-> "open",
   closeEmitter |-> "open", killSignals |-> 0, closeFired |-> 0]

\* a dispose without the kill of lines 66-68
KillNothing(child) == child

\* child_process kill(): the signal goes to a child that is running and
\* sets killed; for a child that has exited or never started it returns
\* false and changes nothing
Kill(child) ==
  IF child.state = "running"
  THEN [child EXCEPT !.state = "killed", !.killed = TRUE]
  ELSE child

\* EventEmitter.fire reaches the listeners of an emitter that is not
\* disposed
Fire(emitter, fired) == IF emitter = "open" THEN fired + 1 ELSE fired

\* dispose (lines 60-74)
dispose(t) ==
  IF t.disposed THEN t
  ELSE LET child == IF IsSome(t.process) /\ ~Get(t.process).killed
                    THEN Some(Kill(Get(t.process)))
                    ELSE t.process
           signalled == IsSome(child) /\ child # t.process
       IN  [disposed |-> TRUE,
            process |-> IF IsSome(child)
                        THEN Some([Get(child) EXCEPT !.listeners = FALSE])
                        ELSE child,
            writeEmitter |-> "disposed",
            closeEmitter |-> "disposed",
            killSignals |-> IF signalled THEN t.killSignals + 1
                            ELSE t.killSignals,
            closeFired |-> Fire(t.closeEmitter, t.closeFired)]

DisposeCall(caller, before, after) ==
  [caller |-> caller, before |-> before, after |-> after]

PtyIdle ==
  /\ pty = NewTerminal
  /\ ptyResults = << >>
  /\ ptyDisposeCalls = << >>
  /\ ptyWrites = 0

PtyInit == PtyIdle

\* open (52-54) and launch (80-119): spawn returns a child whose listeners
\* are attached; a child that could not be started reports it in an error
\* event
PtyOpen ==
  /\ pty.process = None
  /\ ~pty.disposed
  /\ \E state \in {"running", "failed"} :
       pty' = [pty EXCEPT !.process =
                 Some([state |-> state, killed |-> FALSE, listeners |-> TRUE])]
  /\ UNCHANGED <<ptyResults, ptyDisposeCalls, ptyWrites>>
  /\ UNCHANGED notPtyVars

\* a chunk of stdout or stderr (89-97)
PtyData ==
  /\ IsSome(pty.process)
  /\ Get(pty.process).state = "running"
  /\ Get(pty.process).listeners
  /\ ptyWrites < MaxChunks
  /\ ptyWrites' = ptyWrites + 1
  /\ UNCHANGED <<pty, ptyResults, ptyDisposeCalls>>
  /\ UNCHANGED notPtyVars

\* the child exits by itself; its close event is delivered later
PtyExit ==
  /\ IsSome(pty.process)
  /\ Get(pty.process).state = "running"
  /\ pty' = [pty EXCEPT !.process = Some([Get(@) EXCEPT !.state = "exited"])]
  /\ UNCHANGED <<ptyResults, ptyDisposeCalls, ptyWrites>>
  /\ UNCHANGED notPtyVars

\* the close handler (99-107): onResult, then dispose
PtyProcessClose ==
  /\ IsSome(pty.process)
  /\ Get(pty.process).state = "exited"
  /\ Get(pty.process).listeners
  /\ Len(ptyDisposeCalls) < MaxDisposeCalls
  /\ \E code \in ExitCodes :
       ptyResults' = Append(ptyResults, code)
  /\ pty' = dispose(pty)
  /\ ptyDisposeCalls' =
       Append(ptyDisposeCalls, DisposeCall("processClose", pty, pty'))
  /\ UNCHANGED ptyWrites
  /\ UNCHANGED notPtyVars

\* the error handler (109-118): a line on the terminal, onResult with -1,
\* then dispose
PtyProcessError ==
  /\ IsSome(pty.process)
  /\ Get(pty.process).state = "failed"
  /\ Get(pty.process).listeners
  /\ Len(ptyDisposeCalls) < MaxDisposeCalls
  /\ ptyResults' = Append(ptyResults, Some(-1))
  /\ pty' = dispose(pty)
  /\ ptyDisposeCalls' =
       Append(ptyDisposeCalls, DisposeCall("processError", pty, pty'))
  /\ ptyWrites' = ptyWrites + 1
  /\ UNCHANGED notPtyVars

\* close (56-58), called by the host when the user closes the terminal
PtyClose ==
  /\ IsSome(pty.process)
  /\ Len(ptyDisposeCalls) < MaxDisposeCalls
  /\ pty' = dispose(pty)
  /\ ptyDisposeCalls' = Append(ptyDisposeCalls, DisposeCall("close", pty, pty'))
  /\ UNCHANGED <<ptyResults, ptyWrites>>
  /\ UNCHANGED notPtyVars

\* dispose called on the Disposable by the host
PtyDispose ==
  /\ IsSome(pty.process)
  /\ Len(ptyDisposeCalls) < MaxDisposeCalls
  /\ pty' = dispose(pty)
  /\ ptyDisposeCalls' = Append(ptyDisposeCalls, DisposeCall("host", pty, pty'))
  /\ UNCHANGED <<ptyResults, ptyWrites>>
  /\ UNCHANGED notPtyVars

(***************************************************************************)
(* One call of buildEnvironment (part_001, lines 267-315) on an inherited  *)
(* environment, declared entries and resolved parameters whose keys        *)
(* collide.                                                                *)
(***************************************************************************)
ParamP == <<"P", "A", "R", "A", "M", "_", "P">>
InheritedEnvironments ==
  { << >>,
    <<[key |-> KeyK, value |-> <<"h">>]>>,
    <<[key |-> ParamP, value |-> <<"h">>],
      [key |-> SnipItWorkingDirectory, value |-> <<"h">>]>> }
DeclaredEntries ==
  {[key |-> k, value |-> v, fromSecret |-> FALSE, secretKey |-> None] :
     k \in {KeyK, SnipItActionId, ParamP}, v \in {None, Some(<<"x">>)}}
    \cup
  { [key |-> KeyK, value |-> Some(<<"y">>), fromSecret |-> FALSE,
     secretKey |-> None],
    [key |-> << >>, value |-> Some(<<"x">>), fromSecret |-> FALSE,
     secretKey |-> None],
    [key |-> KeyK, value |-> None, fromSecret |-> TRUE,
     secretKey |-> Some("s1")] }
AssemblyInputs ==
  [processEnv : InheritedEnvironments,
   env : SeqsUpTo(DeclaredEntries, MaxEnv),
   parameterValues : ParameterObjects,
   target : LogTargets,
   storage : {[k \in {"s1"} |-> <<"t">>]}]

AssemblyIdle ==
  /\ assemblyInput =
       [processEnv |-> << >>, env |-> << >>, parameterValues |-> << >>,
        target |-> [language |-> "bash", platform |-> "linux",
                    bashImplementation |-> Some("posix")],
        storage |-> << >>]
  /\ assemblyBuilt = None

AssemblyInit ==
  /\ assemblyInput \in AssemblyInputs
  /\ assemblyBuilt = None

AssemblyAction == LogActionWith(assemblyInput.env, assemblyInput.target)
AssemblyOptions ==
  [context |-> EmptyContext, parameterValues |-> assemblyInput.parameterValues]
AssemblyHost ==
  [platform |-> assemblyInput.target.platform, workspaceFolder |-> None,
   processEnv |-> assemblyInput.processEnv]

\* createSpawnOptions, line 257
AssembleEnvironment ==
  /\ assemblyBuilt = None
  /\ assemblyBuilt' =
       Some(buildEnvironment(AssemblyAction, AssemblyOptions,
                             WorkingDirectoryOn(assemblyInput.target),
                             assemblyInput.target.bashImplementation,
                             AssemblyHost, assemblyInput.storage))
  /\ UNCHANGED assemblyInput
  /\ UNCHANGED notAssemblyVars

(***************************************************************************)
(* A chain run over actions that have chains of their own (runAction and   *)
(* runChainedActions, actionService.ts, lines 174-194 and 419-460).        *)
(* flatActions maps the id of each loaded action to its chain; the run is  *)
(* started for action A.                                                   *)
(***************************************************************************)
Link(target) == [targetActionId |-> target]
RootChains == SeqsUpTo({Link(t) : t \in ActionIds}, MaxChain)
TargetChains == {<< >>} \cup {<<Link(t)>> : t \in ActionIds}
FlatRoot == "A"
LoadedActions ==
  UNION { {[id \in dom |-> IF id = FlatRoot THEN root ELSE own[id]] :
             root \in RootChains, own \in [dom -> TargetChains]} :
          dom \in {d \in SUBSET ActionIds : FlatRoot \in d} }

RECURSIVE ChainsOf(_, _)
ChainsOf(ids, actions) ==
  IF ids = << >> THEN << >>
  ELSE actions[Head(ids)] \o ChainsOf(Tail(ids), actions)

\* the chain of every target that ran is gone through after the root's
LinksFollowingTargets(actions, root, executed) ==
  actions[root] \o ChainsOf(Tail(executed), actions)

\* for (const link of action.chain) (line 431): the loop goes through the
\* chain of the action runAction was called for; a target is handed to
\* executor.execute (line 450), and its chain is not read
LinksOfRun(actions, root, executed) == actions[root]

FlatLinks == LinksOfRun(flatActions, FlatRoot, flatExecuted)

FlatIdle ==
  /\ flatActions = << >>
  /\ flatPc = "off"
  /\ flatIndex = 0
  /\ flatVisited = {}
  /\ flatExecuted = << >>

FlatInit ==
  /\ flatActions \in LoadedActions
  /\ flatPc = "idle"
  /\ flatIndex = 0
  /\ flatVisited = {}
  /\ flatExecuted = << >>

\* runAction, lines 175-183: the root is found and executed
FlatRunAction ==
  /\ flatPc = "idle"
  /\ flatExecuted' = <<FlatRoot>>
  /\ flatPc' = "root"
  /\ UNCHANGED <<flatActions, flatIndex, flatVisited>>
  /\ UNCHANGED notFlatVars

\* lines 185-193: the root fails or throws, or succeeds and
\* runChainedActions starts (424-429)
FlatRootSettles ==
  /\ flatPc = "root"
  /\ \E succeeded \in BOOLEAN :
       IF succeeded /\ flatActions[FlatRoot] # << >>
       THEN /\ flatVisited' = InitialVisited([id |-> FlatRoot])
            /\ flatIndex' = 1
            /\ flatPc' = "loop"
       ELSE /\ flatPc' = "done"
            /\ UNCHANGED <<flatIndex, flatVisited>>
  /\ UNCHANGED <<flatActions, flatExecuted>>
  /\ UNCHANGED notFlatVars

\* lines 432-441: a visited or missing target ends the loop, as does the
\* end of the links
FlatStops ==
  /\ flatPc = "loop"
  /\ \/ flatIndex > Len(FlatLinks)
     \/ /\ flatIndex <= Len(FlatLinks)
        /\ \/ FlatLinks[flatIndex].targetActionId \in flatVisited
           \/ FlatLinks[flatIndex].targetActionId \notin DOMAIN flatActions
  /\ flatPc' = "done"
  /\ UNCHANGED <<flatActions, flatIndex, flatVisited, flatExecuted>>
  /\ UNCHANGED notFlatVars

\* lines 443-451: the target is marked visited and executed
FlatExecute ==
  /\ flatPc = "loop"
  /\ flatIndex <= Len(FlatLinks)
  /\ LET target == FlatLinks[flatIndex].targetActionId
     IN  /\ target \notin flatVisited
         /\ target \in DOMAIN flatActions
         /\ flatVisited' = flatVisited \cup {target}
         /\ flatExecuted' = Append(flatExecuted, target)
  /\ flatPc' = "link"
  /\ UNCHANGED <<flatActions, flatIndex>>
  /\ UNCHANGED notFlatVars

\* lines 451-458: the link fails or throws and the loop ends, or it
\* succeeds and the loop goes on
FlatLinkSettles ==
  /\ flatPc = "link"
  /\ \E succeeded \in BOOLEAN :
       IF succeeded
       THEN /\ flatIndex' = flatIndex + 1
            /\ flatPc' = "loop"
       ELSE /\ flatPc' = "done"
            /\ UNCHANGED flatIndex
  /\ UNCHANGED <<flatActions, flatVisited, flatExecuted>>
  /\ UNCHANGED notFlatVars

(***************************************************************************)
(* importActions (actionService.ts, lines 224-326) on files whose actions  *)
(* have chains.  A chain is the sequence of the targetActionId of its      *)
(* links, as written in the file.                                          *)
(***************************************************************************)
IdC == <<"C">>
PaddedIdA == <<" ", "A">>
ChainedAction(id, chain) == [id |-> id, name |-> "n1", chain |-> chain]
FileChains == {<< >>, <<IdA>>, <<PaddedIdA>>, <<IdB>>, <<IdA, IdC>>}
FileCandidates ==
  {[id |-> i, name |-> "n2", chain |-> c] :
     i \in {None, Some(IdA), Some(PaddedIdA), Some(IdB)}, c \in FileChains}
ChainedFiles == SeqsUpTo(FileCandidates, MaxImport) \ {<< >>}
ChainedStores ==
  { << >>,
    <<ChainedAction(IdA, <<IdB>>)>>,
    <<ChainedAction(IdA, << >>), ChainedAction(IdB, <<IdA>>)>> }

\* no entry of idMap is read: the links stay as written
IdMapUnread(candidates, newIds, target) == None

\* idMap (lines 249, 279-281) as the loop over the links reads it (line
\* 300): the new id of the first candidate whose trimmed id is the target
IdMapGet(candidates, newIds, target) ==
  LET hits == {k \in 1..Len(candidates) :
                 OriginalId(candidates[k]) = Some(target)}
  IN  IF hits = {} THEN None ELSE Some(newIds[SetMin(hits)])

\* lines 293-304: idMap.get(targetActionId) ?? targetActionId
RemappedChain(chain, candidates, newIds) ==
  [k \in 1..Len(chain) |->
     LET mapped == IdMapGet(candidates, newIds, chain[k])
     IN  IF mapped = None THEN chain[k] ELSE Get(mapped)]

\* importActions, lines 245-319: the actions pushed to imported
ImportedWithChains(existing, candidates, next) ==
  LET newIds == Queue(candidates, candidates, StoredIds(existing), next)
  IN  [k \in 1..Len(candidates) |->
         [id |-> newIds[k], name |-> candidates[k].name,
          chain |-> RemappedChain(candidates[k].chain, candidates, newIds)]]

ImportIdle ==
  /\ importExisting = << >>
  /\ importParsed = << >>
  /\ importOverwritten = None

ImportInit ==
  /\ importExisting \in ChainedStores
  /\ importParsed \in ChainedFiles
  /\ importOverwritten = None

\* line 321: store.overwrite([...existing, ...imported])
ImportOverwrites ==
  /\ importOverwritten = None
  /\ importOverwritten' =
       Some(importExisting
              \o ImportedWithChains(importExisting, importParsed, 0))
  /\ UNCHANGED <<importExisting, importParsed>>
  /\ UNCHANGED notImportVars

(***************************************************************************)
(* Two operations of the action store in flight together (actionStore.ts,  *)
(* lines 25-49 and 66-70).  save and delete start with                     *)
(* `await this.getAll()`: getAll reads the cache when it is called, and    *)
(* the operation goes on in a later microtask, so an operation called from *)
(* a microtask queued before that one (two handlers resumed in the same    *)
(* drain of the queue) reads the list the first has not replaced yet.      *)
(***************************************************************************)
OpIds == {1, 2}
SaveRequest(action) == [kind |-> "save", id |-> action.id, action |-> action]
DeleteRequest(actionId) ==
  [kind |-> "delete", id |-> actionId,
   action |-> [id |-> actionId, name |-> "n1"]]
StoreRequests ==
  {SaveRequest([id |-> i, name |-> "n2"]) : i \in {IdA, IdB, Uuid(0)}}
    \cup {DeleteRequest(i) : i \in {IdA, IdB}}
\* two operations on different action ids
RequestPairs ==
  {pair \in [OpIds -> StoreRequests] : pair[1].id # pair[2].id}

\* what the operation hands to persist (lines 34-42, 46-48)
NextList(existing, request) ==
  IF request.kind = "save" THEN save(existing, request.action)
  ELSE delete(existing, request.id)

OpsIdle ==
  /\ sharedCache = << >>
  /\ opRequest = << >>
  /\ opPc = << >>
  /\ opRead = << >>
  /\ storageFile = << >>
  /\ lastEvent = None
  /\ opOverlap = FALSE

OpsInit ==
  /\ sharedCache \in InitialStores
  /\ opRequest \in RequestPairs
  /\ opPc = [i \in OpIds |-> "idle"]
  /\ opRead = [i \in OpIds |-> << >>]
  /\ storageFile = sharedCache
  /\ lastEvent = None
  /\ opOverlap = FALSE

OpInFlight(i) == opPc[i] \in {"awaiting", "writing"}

\* save or delete is called: getAll (lines 25-31) returns the cache, and
\* the operation is suspended at its await (lines 34, 46)
OpCalled ==
  \E i \in OpIds :
    /\ opPc[i] = "idle"
    /\ opRead' = [opRead EXCEPT ![i] = sharedCache]
    /\ opPc' = [opPc EXCEPT ![i] = "awaiting"]
    /\ opOverlap' = (opOverlap \/ \E j \in OpIds \ {i} : OpInFlight(j))
    /\ UNCHANGED <<sharedCache, opRequest, storageFile, lastEvent>>
    /\ UNCHANGED notOpsVars

\* the operation resumes with the list getAll gave it and calls persist,
\* which replaces the cache and starts to write the file (lines 67-68)
OpPersists ==
  \E i \in OpIds :
    /\ opPc[i] = "awaiting"
    /\ sharedCache' = NextList(opRead[i], opRequest[i])
    /\ opRead' = [opRead EXCEPT ![i] = sharedCache']
    /\ opPc' = [opPc EXCEPT ![i] = "writing"]
    /\ UNCHANGED <<opRequest, storageFile, lastEvent, opOverlap>>
    /\ UNCHANGED notOpsVars

\* the write of the file ends and persist fires the change event with the
\* cache of that moment (line 69)
OpWritten ==
  \E i \in OpIds :
    /\ opPc[i] = "writing"
    /\ storageFile' = opRead[i]
    /\ lastEvent' = Some(sharedCache)
    /\ opPc' = [opPc EXCEPT ![i] = "done"]
    /\ UNCHANGED <<sharedCache, opRequest, opRead, opOverlap>>
    /\ UNCHANGED notOpsVars

(***************************************************************************)
(* The editor panel (actionEditorProvider.ts, lines 38-121) and its two    *)
(* callers, createAction and editAction (actionService.ts, lines 69-146).  *)
(* A target is the action showEditor is called for, or NewAction for a     *)
(* call without one.  currentPanel is the target the open panel shows;     *)
(* awaitingDraft is the target of the caller whose promise the panel       *)
(* resolves.                                                               *)
(***************************************************************************)
MaxEditorSaves == 2
NewAction == [id |-> << >>, name |-> ""]
IsNewAction(target) == target.id = << >>

\* the draft of a save message: the form the panel shows, as the user left
\* it
DraftOf(shown, name) == [shown |-> shown, name |-> name]

\* the promise showEditor returned to its first caller resolves with the
\* draft (cleanup, lines 69-81), and that caller stores it: createAction
\* under a fresh id (lines 81-103), editAction under the id of the action
\* it was called for (lines 123-144)
ApplyDraft(waiting, draft, actions, next) ==
  IF IsNewAction(waiting)
  THEN save(actions, [id |-> Uuid(next), name |-> draft.name])
  ELSE save(actions, [waiting EXCEPT !.name = draft.name])

EditorSave(shown, waiting, before, after) ==
  [shown |-> shown, waiting |-> waiting, before |-> before, after |-> after]

EditorIdle ==
  /\ currentPanel = None
  /\ awaitingDraft = None
  /\ editorActions = << >>
  /\ editorUuids = 0
  /\ editorSaves = << >>

EditorInit ==
  /\ currentPanel = None
  /\ awaitingDraft = None
  /\ editorActions \in InitialStores
  /\ editorUuids = 0
  /\ editorSaves = << >>

\* the actions editAction can be called for, and a call of createAction
EditorTargets ==
  {NewAction} \cup {editorActions[k] : k \in 1..Len(editorActions)}

\* showEditor without an open panel (lines 52-119): the panel is created
\* and the caller awaits its draft
ShowEditorOpens ==
  /\ currentPanel = None
  /\ \E target \in EditorTargets :
       /\ currentPanel' = Some(target)
       /\ awaitingDraft' = Some(target)
  /\ UNCHANGED <<editorActions, editorUuids, editorSaves>>
  /\ UNCHANGED notEditorVars

\* showEditor with the panel open (lines 42-49): the panel is loaded with
\* the new target and this caller gets undefined, on which createAction and
\* editAction return
ShowEditorReuses ==
  /\ currentPanel # None
  /\ \E target \in EditorTargets :
       /\ target # Get(currentPanel)
       /\ currentPanel' = Some(target)
  /\ UNCHANGED <<awaitingDraft, editorActions, editorUuids, editorSaves>>
  /\ UNCHANGED notEditorVars

\* the save message (lines 100-103) with the caller's continuation up to
\* store.save
PanelSaves ==
  /\ currentPanel # None
  /\ Len(editorSaves) < MaxEditorSaves
  /\ \E name \in DraftNames :
       LET draft == DraftOf(Get(currentPanel), name)
           after == ApplyDraft(Get(awaitingDraft), draft, editorActions,
                               editorUuids)
       IN  /\ editorActions' = after
           /\ editorSaves' =
                Append(editorSaves,
                       EditorSave(Get(currentPanel), Get(awaitingDraft),
                                  editorActions, after))
  /\ editorUuids' =
       IF IsNewAction(Get(awaitingDraft)) THEN editorUuids + 1
       ELSE editorUuids
  /\ currentPanel' = None
  /\ awaitingDraft' = None
  /\ UNCHANGED notEditorVars

\* the cancel message, or the panel is closed (lines 105-110): the caller
\* gets undefined and returns
PanelCancels ==
  /\ currentPanel # None
  /\ currentPanel' = None
  /\ awaitingDraft' = None
  /\ UNCHANGED <<editorActions, editorUuids, editorSaves>>
  /\ UNCHANGED notEditorVars

(***************************************************************************)
(* ClipboardTrigger (clipboardTrigger.ts, lines 7-44).  clipTimers counts  *)
(* the intervals that are set and not cleared; this.timer is defined when  *)
(* one was set by start and dispose has not cleared it since.              *)
(* clipReading counts the calls of checkClipboard suspended at readText.   *)
(***************************************************************************)
MaxReading == 2
MaxHandled == 2
ClipboardTexts == {<< >>, <<"a">>, <<"b">>}

ClipIdle ==
  /\ clipTimers = 0
  /\ clipDisposed = FALSE
  /\ clipLastValue = << >>
  /\ clipReading = 0
  /\ windowFocused = FALSE
  /\ clipHandled = << >>

ClipInit ==
  /\ clipTimers = 0
  /\ clipDisposed = FALSE
  /\ clipLastValue = << >>
  /\ clipReading = 0
  /\ windowFocused \in BOOLEAN
  /\ clipHandled = << >>

\* start (lines 14-22)
ClipStart ==
  /\ clipTimers' = IF clipTimers > 0 THEN clipTimers ELSE clipTimers + 1
  /\ UNCHANGED <<clipDisposed, clipLastValue, clipReading, windowFocused,
                 clipHandled>>
  /\ UNCHANGED notClipVars

\* dispose (lines 24-31)
ClipDispose ==
  /\ clipTimers' = 0
  /\ clipDisposed' = TRUE
  /\ UNCHANGED <<clipLastValue, clipReading, windowFocused, clipHandled>>
  /\ UNCHANGED notClipVars

\* the window gains or loses the focus
FocusChanges ==
  /\ windowFocused' = ~windowFocused
  /\ UNCHANGED <<clipTimers, clipDisposed, clipLastValue, clipReading,
                 clipHandled>>
  /\ UNCHANGED notClipVars

\* the interval fires and checkClipboard runs to its await (lines 19-21,
\* 33-38)
ClipTick ==
  /\ clipTimers > 0
  /\ clipReading < MaxReading
  /\ clipReading' =
       IF clipDisposed \/ ~windowFocused THEN clipReading
       ELSE clipReading + 1
  /\ UNCHANGED <<clipTimers, clipDisposed, clipLastValue, windowFocused,
                 clipHandled>>
  /\ UNCHANGED notClipVars

\* readText returns and checkClipboard goes on (lines 38-42)
ClipReadReturns ==
  /\ clipReading > 0
  /\ clipReading' = clipReading - 1
  /\ \E value \in ClipboardTexts :
       IF value # << >> /\ value # clipLastValue
            /\ Len(clipHandled) < MaxHandled
       THEN /\ clipLastValue' = value
            /\ clipHandled' =
                 Append(clipHandled,
                        [text |-> value, disposed |-> clipDisposed])
       ELSE /\ value = << >> \/ value = clipLastValue
            /\ UNCHANGED <<clipLastValue, clipHandled>>
  /\ UNCHANGED <<clipTimers, clipDisposed, windowFocused>>
  /\ UNCHANGED notClipVars

(***************************************************************************)
(* testDraft and buildTestActionDefinition (actionService.ts, lines        *)
(* 475-487 and 493-565) with the secret manager (secretManager.ts).  The   *)
(* secret store is a map from secret keys to values; keys are character    *)
(* sequences, so that createSecretKey is computed.                         *)
(***************************************************************************)
MaxDraftEnv == 2
Colon == <<":">>
SecretPrefix == <<"s", "n", "i", "p", "p", "e", "t">>
TestSuffix == <<"-", "t", "e", "s", "t">>
\* SecretManager.createSecretKey (secretManager.ts, lines 8-10)
createSecretKey(actionId, envKey) ==
  SecretPrefix \o Colon \o actionId \o Colon \o envKey
\* storage.delete
deleteSecret(storage, secretKey) ==
  SelectSeq(storage, LAMBDA item : item.key # secretKey)
\* readSecret (secretManager.ts, lines 20-26) on this store
ReadStoredSecret(storage, secretKey) ==
  IF secretKey = None \/ Get(secretKey) = << >> THEN None
  ELSE Lookup(storage, Get(secretKey))
RECURSIVE DeleteAll(_, _)
DeleteAll(storage, secretKeys) ==
  IF secretKeys = << >> THEN storage
  ELSE DeleteAll(deleteSecret(storage, Head(secretKeys)), Tail(secretKeys))

\* cleanup (lines 560-562): every key of cleanupKeys is deleted
TestCleanup(storage, secretKeys) == DeleteAll(storage, secretKeys)

\* Inputs: the saved action A with its secrets for the env keys K and
\* K-test, and the entries a draft can hold
KeyKTest == KeyK \o TestSuffix
SavedKeyK == createSecretKey(IdA, KeyK)
SavedKeyKTest == createSecretKey(IdA, KeyKTest)
SavedSecrets ==
  { << >>,
    <<[key |-> SavedKeyK, value |-> <<"s">>]>>,
    <<[key |-> SavedKeyK, value |-> <<"s">>],
      [key |-> SavedKeyKTest, value |-> <<"s">>]>> }
DraftEntry(key, fromSecret, removal, secretValue, secretKey) ==
  [key |-> key, fromSecret |-> fromSecret, removal |-> removal,
   secretValue |-> secretValue, secretKey |-> secretKey]
DraftEntries ==
  { DraftEntry(KeyK, TRUE, FALSE, Some(<<"v">>), None),
    DraftEntry(<<" ", "K">>, TRUE, FALSE, Some(<<"v">>), Some(SavedKeyK)),
    DraftEntry(KeyK, TRUE, TRUE, None, Some(SavedKeyK)),
    DraftEntry(KeyK, TRUE, FALSE, None, Some(SavedKeyK)),
    DraftEntry(KeyA, TRUE, FALSE, None, None),
    DraftEntry(KeyA, FALSE, FALSE, None, None),
    DraftEntry(<< >>, TRUE, TRUE, None, None) }
TestId == <<"t", "e", "s", "t", "-">> \o Uuid(0)

TestIdle ==
  /\ testStorage = << >>
  /\ testSaved = << >>
  /\ testBase = None
  /\ testEnv = << >>
  /\ testPc = "idle"
  /\ testIndex = 0
  /\ testCleanupKeys = << >>
  /\ testStored = {}

TestInit ==
  /\ testStorage \in SavedSecrets
  /\ testSaved = testStorage
  /\ testBase \in {None, Some(IdA)}
  /\ testEnv \in SeqsUpTo(DraftEntries, MaxDraftEnv)
  /\ testPc = "building"
  /\ testIndex = 1
  /\ testCleanupKeys = << >>
  /\ testStored = {}

\* baseAction?.id ?? `test-${randomUUID()}` (line 498)
BaseId == IF testBase = None THEN TestId ELSE Get(testBase)

\* one turn of the loop over draft.env (lines 503-534); a throw leaves
\* buildTestActionDefinition and testDraft before cleanup exists
TestBuildEntry ==
  /\ testPc = "building"
  /\ testIndex <= Len(testEnv)
  /\ LET entry == testEnv[testIndex]
         key == Trim(entry.key)
         secretValue ==
           IF entry.secretValue = None /\ entry.secretKey # None
                /\ entry.secretKey # Some(<< >>)
           THEN ReadStoredSecret(testStorage, entry.secretKey)
           ELSE entry.secretValue
         testKey == createSecretKey(BaseId, key \o TestSuffix)
     IN  IF key = << >> \/ ~entry.fromSecret
         THEN /\ testIndex' = testIndex + 1
              /\ UNCHANGED <<testStorage, testPc, testCleanupKeys, testStored>>
         ELSE IF entry.removal \/ secretValue = None
         THEN /\ testPc' = "settled"
              /\ UNCHANGED <<testStorage, testIndex, testCleanupKeys,
                             testStored>>
         ELSE IF entry.secretKey = None \/ entry.secretKey = Some(<< >>)
                   \/ entry.secretValue # None
         THEN /\ testStorage' = Assign(testStorage, testKey, Get(secretValue))
              /\ testCleanupKeys' = Append(testCleanupKeys, testKey)
              /\ testStored' = testStored \cup {testKey}
              /\ testIndex' = testIndex + 1
              /\ UNCHANGED testPc
         ELSE /\ testIndex' = testIndex + 1
              /\ UNCHANGED <<testStorage, testPc, testCleanupKeys, testStored>>
  /\ UNCHANGED <<testSaved, testBase, testEnv>>
  /\ UNCHANGED notTestVars

\* the definition is built and execute is called (lines 480-483)
TestExecutes ==
  /\ testPc = "building"
  /\ testIndex > Len(testEnv)
  /\ testPc' = "executing"
  /\ UNCHANGED <<testStorage, testSaved, testBase, testEnv, testIndex,
                 testCleanupKeys, testStored>>
  /\ UNCHANGED notTestVars

\* execute returns or throws, and the finally block calls cleanup (lines
\* 483-486)
TestSettles ==
  /\ testPc = "executing"
  /\ testStorage' = TestCleanup(testStorage, testCleanupKeys)
  /\ testPc' = "settled"
  /\ UNCHANGED <<testSaved, testBase, testEnv, testIndex, testCleanupKeys,
                 testStored>>
  /\ UNCHANGED notTestVars

(***************************************************************************)
(* Specifications.                                                         *)
(***************************************************************************)
InitTemplate == TemplateInit /\ TrimIdle /\ PathIdle /\ ResolveIdle /\ ExecIdle
  /\ ChainIdle /\ CleanupIdle
    /\ LogIdle
    /\ StoreIdle
    /\ RunsIdle
    /\ SaveIdle
    /\ TokenIdle
    /\ EnvIdle
    /\ BashIdle
    /\ PythonIdle
    /\ PtyIdle
    /\ AssemblyIdle
    /\ FlatIdle
    /\ ImportIdle
    /\ OpsIdle
    /\ EditorIdle
    /\ ClipIdle
    /\ TestIdle
RenderTemplate == Render /\ UNCHANGED notTemplateVars
SpecTemplate == InitTemplate /\ [][RenderTemplate]_vars

InitTrim == TrimInit /\ TemplateIdle /\ PathIdle /\ ResolveIdle /\ ExecIdle
  /\ ChainIdle /\ CleanupIdle
    /\ LogIdle
    /\ StoreIdle
    /\ RunsIdle
    /\ SaveIdle
    /\ TokenIdle
    /\ EnvIdle
    /\ BashIdle
    /\ PythonIdle
    /\ PtyIdle
    /\ AssemblyIdle
    /\ FlatIdle
    /\ ImportIdle
    /\ OpsIdle
    /\ EditorIdle
    /\ ClipIdle
    /\ TestIdle
TrimChainedOutput == PrepareChainedOutput /\ UNCHANGED notTrimVars
SpecTrim == InitTrim /\ [][TrimChainedOutput]_vars

InitPath == PathInit /\ TemplateIdle /\ TrimIdle /\ ResolveIdle /\ ExecIdle
  /\ ChainIdle /\ CleanupIdle
    /\ LogIdle
    /\ StoreIdle
    /\ RunsIdle
    /\ SaveIdle
    /\ TokenIdle
    /\ EnvIdle
    /\ BashIdle
    /\ PythonIdle
    /\ PtyIdle
    /\ AssemblyIdle
    /\ FlatIdle
    /\ ImportIdle
    /\ OpsIdle
    /\ EditorIdle
    /\ ClipIdle
    /\ TestIdle
NormalizePathForShell == NormalizePath /\ UNCHANGED notPathVars
SpecPath == InitPath /\ [][NormalizePathForShell]_vars

InitResolve == ResolveInit /\ TemplateIdle /\ TrimIdle /\ PathIdle /\ ExecIdle
  /\ ChainIdle /\ CleanupIdle
    /\ LogIdle
    /\ StoreIdle
    /\ RunsIdle
    /\ SaveIdle
    /\ TokenIdle
    /\ EnvIdle
    /\ BashIdle
    /\ PythonIdle
    /\ PtyIdle
    /\ AssemblyIdle
    /\ FlatIdle
    /\ ImportIdle
    /\ OpsIdle
    /\ EditorIdle
    /\ ClipIdle
    /\ TestIdle
NextResolve ==
  \/ ResolveCall
  \/ ResolveSkip
  \/ ResolveDefault
  \/ ResolvePrompt
  \/ ResolveReturn
  \/ RenderScript
SpecResolve == InitResolve /\ [][NextResolve]_vars

InitExec == ExecInit /\ TemplateIdle /\ TrimIdle /\ PathIdle /\ ResolveIdle
  /\ ChainIdle /\ CleanupIdle
    /\ LogIdle
    /\ StoreIdle
    /\ RunsIdle
    /\ SaveIdle
    /\ TokenIdle
    /\ EnvIdle
    /\ BashIdle
    /\ PythonIdle
    /\ PtyIdle
    /\ AssemblyIdle
    /\ FlatIdle
    /\ ImportIdle
    /\ OpsIdle
    /\ EditorIdle
    /\ ClipIdle
    /\ TestIdle
NextExec ==
  \/ PrepareExecutionPlan
  \/ CreateSpawnOptions
  \/ Launch
  \/ ProcessClose
  \/ ProcessError
  \/ CleanupAndSettle
  \/ CloseAfterError
  \/ TerminalClosed
SpecExec == InitExec /\ [][NextExec]_vars
\* every handler that is due runs: the event loop starves no callback
SpecExecFair == SpecExec /\ WF_vars(NextExec)

InitCleanup ==
  CleanupInit /\ TemplateIdle /\ TrimIdle /\ PathIdle /\ ResolveIdle
    /\ ExecIdle /\ ChainIdle
    /\ LogIdle
    /\ StoreIdle
    /\ RunsIdle
    /\ SaveIdle
    /\ TokenIdle
    /\ EnvIdle
    /\ BashIdle
    /\ PythonIdle
    /\ PtyIdle
    /\ AssemblyIdle
    /\ FlatIdle
    /\ ImportIdle
    /\ OpsIdle
    /\ EditorIdle
    /\ ClipIdle
    /\ TestIdle
SpecCleanup == InitCleanup /\ [][CallCleanup]_vars

InitLog ==
  LogInit /\ TemplateIdle /\ TrimIdle /\ PathIdle /\ ResolveIdle /\ ExecIdle
    /\ CleanupIdle /\ ChainIdle
    /\ StoreIdle
    /\ RunsIdle
    /\ SaveIdle
    /\ TokenIdle
    /\ EnvIdle
    /\ BashIdle
    /\ PythonIdle
    /\ PtyIdle
    /\ AssemblyIdle
    /\ FlatIdle
    /\ ImportIdle
    /\ OpsIdle
    /\ EditorIdle
    /\ ClipIdle
    /\ TestIdle
NextLog ==
  \/ CreateSpawnOptionsOfBoth
  \/ LogExecutionPlanOfBoth
SpecLog == InitLog /\ [][NextLog]_vars

InitChain ==
  ChainInit /\ TemplateIdle /\ TrimIdle /\ PathIdle /\ ResolveIdle /\ ExecIdle
    /\ CleanupIdle
    /\ LogIdle
    /\ StoreIdle
    /\ RunsIdle
    /\ SaveIdle
    /\ TokenIdle
    /\ EnvIdle
    /\ BashIdle
    /\ PythonIdle
    /\ PtyIdle
    /\ AssemblyIdle
    /\ FlatIdle
    /\ ImportIdle
    /\ OpsIdle
    /\ EditorIdle
    /\ ClipIdle
    /\ TestIdle
Next ==
  \/ RunActionNotFound
  \/ RunAction
  \/ RootThrows
  \/ RootSettles
  \/ ChainExhausted
  \/ ChainCycle
  \/ ChainTargetMissing
  \/ ChainExecute
  \/ LinkThrows
  \/ LinkSettles
  \/ HandleStoreUpdate
  \/ EditorChanges
Spec == InitChain /\ [][Next]_vars

InitStore ==
  StoreInit
    /\ TemplateIdle
    /\ TrimIdle
    /\ PathIdle
    /\ ResolveIdle
    /\ ExecIdle
    /\ CleanupIdle
    /\ ChainIdle
    /\ LogIdle
    /\ RunsIdle
    /\ SaveIdle
    /\ TokenIdle
    /\ EnvIdle
    /\ BashIdle
    /\ PythonIdle
    /\ PtyIdle
    /\ AssemblyIdle
    /\ FlatIdle
    /\ ImportIdle
    /\ OpsIdle
    /\ EditorIdle
    /\ ClipIdle
    /\ TestIdle
NextStore ==
  \/ CreateAction
  \/ EditAction
  \/ DeleteAction
  \/ ImportActions
SpecStore == InitStore /\ [][NextStore]_vars

InitRuns ==
  RunsInit
    /\ TemplateIdle
    /\ TrimIdle
    /\ PathIdle
    /\ ResolveIdle
    /\ ExecIdle
    /\ CleanupIdle
    /\ ChainIdle
    /\ LogIdle
    /\ StoreIdle
    /\ SaveIdle
    /\ TokenIdle
    /\ EnvIdle
    /\ BashIdle
    /\ PythonIdle
    /\ PtyIdle
    /\ AssemblyIdle
    /\ FlatIdle
    /\ ImportIdle
    /\ OpsIdle
    /\ EditorIdle
    /\ ClipIdle
    /\ TestIdle
NextRuns ==
  \/ HandleRunCommand
  \/ RunExecutesRoot
  \/ RunExecuteSettles
SpecRuns == InitRuns /\ [][NextRuns]_vars

InitSave ==
  SaveInit
    /\ TemplateIdle
    /\ TrimIdle
    /\ PathIdle
    /\ ResolveIdle
    /\ ExecIdle
    /\ CleanupIdle
    /\ ChainIdle
    /\ LogIdle
    /\ StoreIdle
    /\ RunsIdle
    /\ TokenIdle
    /\ EnvIdle
    /\ BashIdle
    /\ PythonIdle
    /\ PtyIdle
    /\ AssemblyIdle
    /\ FlatIdle
    /\ ImportIdle
    /\ OpsIdle
    /\ EditorIdle
    /\ ClipIdle
    /\ TestIdle
NextSave ==
  \/ SaveDraft
SpecSave == InitSave /\ [][NextSave]_vars

InitToken ==
  TokenInit
    /\ TemplateIdle
    /\ TrimIdle
    /\ PathIdle
    /\ ResolveIdle
    /\ ExecIdle
    /\ CleanupIdle
    /\ ChainIdle
    /\ LogIdle
    /\ StoreIdle
    /\ RunsIdle
    /\ SaveIdle
    /\ EnvIdle
    /\ BashIdle
    /\ PythonIdle
    /\ PtyIdle
    /\ AssemblyIdle
    /\ FlatIdle
    /\ ImportIdle
    /\ OpsIdle
    /\ EditorIdle
    /\ ClipIdle
    /\ TestIdle
NextToken ==
  \/ ReplaceTokens
SpecToken == InitToken /\ [][NextToken]_vars

InitEnv ==
  EnvInit
    /\ TemplateIdle
    /\ TrimIdle
    /\ PathIdle
    /\ ResolveIdle
    /\ ExecIdle
    /\ CleanupIdle
    /\ ChainIdle
    /\ LogIdle
    /\ StoreIdle
    /\ RunsIdle
    /\ SaveIdle
    /\ TokenIdle
    /\ BashIdle
    /\ PythonIdle
    /\ PtyIdle
    /\ AssemblyIdle
    /\ FlatIdle
    /\ ImportIdle
    /\ OpsIdle
    /\ EditorIdle
    /\ ClipIdle
    /\ TestIdle
NextEnv ==
  \/ BuildEnvironment
SpecEnv == InitEnv /\ [][NextEnv]_vars

InitBash ==
  BashInit
    /\ TemplateIdle
    /\ TrimIdle
    /\ PathIdle
    /\ ResolveIdle
    /\ ExecIdle
    /\ CleanupIdle
    /\ ChainIdle
    /\ LogIdle
    /\ StoreIdle
    /\ RunsIdle
    /\ SaveIdle
    /\ TokenIdle
    /\ EnvIdle
    /\ PythonIdle
    /\ PtyIdle
    /\ AssemblyIdle
    /\ FlatIdle
    /\ ImportIdle
    /\ OpsIdle
    /\ EditorIdle
    /\ ClipIdle
    /\ TestIdle
NextBash ==
  \/ SearchPathChanges
  \/ GetBashCommand
  \/ GetNodeCommand
SpecBash == InitBash /\ [][NextBash]_vars

InitPython ==
  PythonInit
    /\ TemplateIdle
    /\ TrimIdle
    /\ PathIdle
    /\ ResolveIdle
    /\ ExecIdle
    /\ CleanupIdle
    /\ ChainIdle
    /\ LogIdle
    /\ StoreIdle
    /\ RunsIdle
    /\ SaveIdle
    /\ TokenIdle
    /\ EnvIdle
    /\ BashIdle
    /\ PtyIdle
    /\ AssemblyIdle
    /\ FlatIdle
    /\ ImportIdle
    /\ OpsIdle
    /\ EditorIdle
    /\ ClipIdle
    /\ TestIdle
NextPython ==
  \/ PythonFound
  \/ PythonAscends
  \/ PythonNotFound
SpecPython == InitPython /\ [][NextPython]_vars
\* every fs.access settles, so a turn of the loop that can be taken is taken
SpecPythonFair == SpecPython /\ WF_vars(NextPython)

InitPty ==
  PtyInit
    /\ TemplateIdle
    /\ TrimIdle
    /\ PathIdle
    /\ ResolveIdle
    /\ ExecIdle
    /\ CleanupIdle
    /\ ChainIdle
    /\ LogIdle
    /\ StoreIdle
    /\ RunsIdle
    /\ SaveIdle
    /\ TokenIdle
    /\ EnvIdle
    /\ BashIdle
    /\ PythonIdle
    /\ AssemblyIdle
    /\ FlatIdle
    /\ ImportIdle
    /\ OpsIdle
    /\ EditorIdle
    /\ ClipIdle
    /\ TestIdle
NextPty ==
  \/ PtyOpen
  \/ PtyData
  \/ PtyExit
  \/ PtyProcessClose
  \/ PtyProcessError
  \/ PtyClose
  \/ PtyDispose
SpecPty == InitPty /\ [][NextPty]_vars

InitAssembly ==
  AssemblyInit
    /\ TemplateIdle
    /\ TrimIdle
    /\ PathIdle
    /\ ResolveIdle
    /\ ExecIdle
    /\ CleanupIdle
    /\ ChainIdle
    /\ LogIdle
    /\ StoreIdle
    /\ RunsIdle
    /\ SaveIdle
    /\ TokenIdle
    /\ EnvIdle
    /\ BashIdle
    /\ PythonIdle
    /\ PtyIdle
    /\ FlatIdle
    /\ ImportIdle
    /\ OpsIdle
    /\ EditorIdle
    /\ ClipIdle
    /\ TestIdle
NextAssembly ==
  \/ AssembleEnvironment
SpecAssembly == InitAssembly /\ [][NextAssembly]_vars

InitFlat ==
  FlatInit
    /\ TemplateIdle
    /\ TrimIdle
    /\ PathIdle
    /\ ResolveIdle
    /\ ExecIdle
    /\ CleanupIdle
    /\ ChainIdle
    /\ LogIdle
    /\ StoreIdle
    /\ RunsIdle
    /\ SaveIdle
    /\ TokenIdle
    /\ EnvIdle
    /\ BashIdle
    /\ PythonIdle
    /\ PtyIdle
    /\ AssemblyIdle
    /\ ImportIdle
    /\ OpsIdle
    /\ EditorIdle
    /\ ClipIdle
    /\ TestIdle
NextFlat ==
  \/ FlatRunAction
  \/ FlatRootSettles
  \/ FlatStops
  \/ FlatExecute
  \/ FlatLinkSettles
SpecFlat == InitFlat /\ [][NextFlat]_vars

InitImport ==
  ImportInit
    /\ TemplateIdle
    /\ TrimIdle
    /\ PathIdle
    /\ ResolveIdle
    /\ ExecIdle
    /\ CleanupIdle
    /\ ChainIdle
    /\ LogIdle
    /\ StoreIdle
    /\ RunsIdle
    /\ SaveIdle
    /\ TokenIdle
    /\ EnvIdle
    /\ BashIdle
    /\ PythonIdle
    /\ PtyIdle
    /\ AssemblyIdle
    /\ FlatIdle
    /\ OpsIdle
    /\ EditorIdle
    /\ ClipIdle
    /\ TestIdle
NextImport ==
  \/ ImportOverwrites
SpecImport == InitImport /\ [][NextImport]_vars

InitOps ==
  OpsInit
    /\ TemplateIdle
    /\ TrimIdle
    /\ PathIdle
    /\ ResolveIdle
    /\ ExecIdle
    /\ CleanupIdle
    /\ ChainIdle
    /\ LogIdle
    /\ StoreIdle
    /\ RunsIdle
    /\ SaveIdle
    /\ TokenIdle
    /\ EnvIdle
    /\ BashIdle
    /\ PythonIdle
    /\ PtyIdle
    /\ AssemblyIdle
    /\ FlatIdle
    /\ ImportIdle
    /\ EditorIdle
    /\ ClipIdle
    /\ TestIdle
NextOps ==
  \/ OpCalled
  \/ OpPersists
  \/ OpWritten
SpecOps == InitOps /\ [][NextOps]_vars

InitEditor ==
  EditorInit
    /\ TemplateIdle
    /\ TrimIdle
    /\ PathIdle
    /\ ResolveIdle
    /\ ExecIdle
    /\ CleanupIdle
    /\ ChainIdle
    /\ LogIdle
    /\ StoreIdle
    /\ RunsIdle
    /\ SaveIdle
    /\ TokenIdle
    /\ EnvIdle
    /\ BashIdle
    /\ PythonIdle
    /\ PtyIdle
    /\ AssemblyIdle
    /\ FlatIdle
    /\ ImportIdle
    /\ OpsIdle
    /\ ClipIdle
    /\ TestIdle
NextEditor ==
  \/ ShowEditorOpens
  \/ ShowEditorReuses
  \/ PanelSaves
  \/ PanelCancels
SpecEditor == InitEditor /\ [][NextEditor]_vars

InitClip ==
  ClipInit
    /\ TemplateIdle
    /\ TrimIdle
    /\ PathIdle
    /\ ResolveIdle
    /\ ExecIdle
    /\ CleanupIdle
    /\ ChainIdle
    /\ LogIdle
    /\ StoreIdle
    /\ RunsIdle
    /\ SaveIdle
    /\ TokenIdle
    /\ EnvIdle
    /\ BashIdle
    /\ PythonIdle
    /\ PtyIdle
    /\ AssemblyIdle
    /\ FlatIdle
    /\ ImportIdle
    /\ OpsIdle
    /\ EditorIdle
    /\ TestIdle
NextClip ==
  \/ ClipStart
  \/ ClipDispose
  \/ FocusChanges
  \/ ClipTick
  \/ ClipReadReturns
SpecClip == InitClip /\ [][NextClip]_vars

InitTest ==
  TestInit
    /\ TemplateIdle
    /\ TrimIdle
    /\ PathIdle
    /\ ResolveIdle
    /\ ExecIdle
    /\ CleanupIdle
    /\ ChainIdle
    /\ LogIdle
    /\ StoreIdle
    /\ RunsIdle
    /\ SaveIdle
    /\ TokenIdle
    /\ EnvIdle
    /\ BashIdle
    /\ PythonIdle
    /\ PtyIdle
    /\ AssemblyIdle
    /\ FlatIdle
    /\ ImportIdle
    /\ OpsIdle
    /\ EditorIdle
    /\ ClipIdle
NextTest ==
  \/ TestBuildEntry
  \/ TestExecutes
  \/ TestSettles
SpecTest == InitTest /\ [][NextTest]_vars

(***************************************************************************)
(* Properties.                                                             *)
(***************************************************************************)

\* C7: prepareChainedOutput(s) is s without its maximal trailing run of
\* carriage returns and newlines: the result is a prefix of s, everything it
\* drops is a line break, it does not end in a line break, and
\* "hello\r\n\n" becomes "hello".
C7_OutputTrimming ==
  IsSome(trimmed) =>
    LET t == Get(trimmed)
    IN  /\ Len(t) <= Len(output)
        /\ \A k \in 1..Len(t) : t[k] = output[k]
        /\ \A k \in (Len(t) + 1)..Len(output) : IsLineBreak(output[k])
        /\ (t # << >> => ~IsLineBreak(t[Len(t)]))
        /\ (output = HelloOutput => t = <<"h", "e", "l", "l", "o">>)

C7_Witness ==
  /\ output = HelloOutput
  /\ trimmed = Some(<<"h", "e", "l", "l", "o">>)

\* C8: rendering with a resolver that always answers undefined returns the
\* text unchanged.
C8_TokenRoundTrip ==
  (IsSome(rendered) /\ resolver.kind = "never") => Get(rendered) = source

C8_Witness ==
  /\ resolver.kind = "never"
  /\ source = <<"$", "{", "a", "}", "$", "{", "b", ":", "a", "}">>
  /\ rendered = Some(source)

\* The tokens of a text, position by position: a span i..j is a candidate
\* when it reads "${", a non-empty interior without closing brace, "}"; the
\* tokens are the candidates not begun inside an earlier token.
IsTokenSpan(text, i, j) ==
  /\ i + 3 <= j
  /\ j <= Len(text)
  /\ text[i] = "$"
  /\ text[i + 1] = "{"
  /\ text[j] = "}"
  /\ \A k \in (i + 2)..(j - 1) : text[k] # "}"

CandidateSpans(text) ==
  {sp \in (1..Len(text)) \X (1..Len(text)) : IsTokenSpan(text, sp[1], sp[2])}

TokenSpans(text) ==
  CHOOSE T \in SUBSET CandidateSpans(text) :
    \A sp \in CandidateSpans(text) :
      sp \in T <=> ~\E q \in T : q[1] < sp[1] /\ sp[1] <= q[2]

\* the key of a token interior: what precedes its first colon
KeyOfInterior(inner) ==
  LET colons == {k \in 1..Len(inner) : inner[k] = ":"}
  IN  IF colons = {} THEN inner ELSE SubSeq(inner, 1, SetMin(colons) - 1)

\* what position i of the text contributes to the rendered text
RenderedPiece(text, res, T, i) ==
  IF \E sp \in T : sp[1] = i
  THEN LET sp == CHOOSE q \in T : q[1] = i
           key == KeyOfInterior(SubSeq(text, i + 2, sp[2] - 1))
       IN  IF res.kind = "byKey" /\ res.key = key
           THEN res.val
           ELSE SubSeq(text, i, sp[2])
  ELSE IF \E sp \in T : sp[1] < i /\ i <= sp[2] THEN << >>
  ELSE <<text[i]>>

ExpectedRendering(text, res) ==
  LET T == TokenSpans(text)
  IN  Flatten([i \in 1..Len(text) |-> RenderedPiece(text, res, T, i)])

\* C9: rendering is token by token: a token the resolver answers with a
\* string (the empty string included) is replaced by that string, a token it
\* answers with undefined stays as its literal text, and the text outside
\* tokens is unchanged.
C9_RenderTokenByToken ==
  IsSome(rendered) => Get(rendered) = ExpectedRendering(source, resolver)

C9_Witness ==
  /\ resolver = [kind |-> "byKey", key |-> <<"a">>, val |-> << >>]
  /\ source = <<"$", "{", "a", "}", "$", "{", "b", ":", "a", "}">>
  /\ rendered = Some(<<"$", "{", "b", ":", "a", "}">>)

\* The policy as a table over the input, position by position.
IsDrivePath(v) ==
  /\ Len(v) >= 3
  /\ v[1] \in Letters
  /\ v[2] = ":"
  /\ (v[3] = "\\" \/ v[3] = "/")
  /\ \A k \in 1..Len(v) : v[k] # ";"

Flipped(v) == [k \in 1..Len(v) |-> IF v[k] = "\\" THEN "/" ELSE v[k]]
RestOf(v) == [k \in 1..(Len(v) - 3) |-> v[k + 3]]
LeadingSlashes(r) ==
  IF \A k \in 1..Len(r) : r[k] = "/" THEN Len(r)
  ELSE SetMin({k \in 1..Len(r) : r[k] # "/"}) - 1
WithoutLeadingSlashes(r) == SubSeq(r, LeadingSlashes(r) + 1, Len(r))
HasLineTerminator(r) == \E k \in 1..Len(r) : r[k] = "\n" \/ r[k] = "\r"

DevFileWsl ==
  <<"/", "m", "n", "t", "/", "c", "/", "U", "s", "e", "r", "s", "/",
    "d", "e", "v", "/", "f", "i", "l", "e", ".", "s", "h">>
DevFileForward ==
  <<"C", ":", "/", "U", "s", "e", "r", "s", "/", "d", "e", "v", "/",
    "f", "i", "l", "e", ".", "s", "h">>

\* C10 as stated: identity off bash-on-Windows; a drive path without
\* semicolon becomes /mnt/<lowercase drive>/<rest with forward slashes>
\* under wsl and the string with its backslashes flipped under any other
\* flavor; every other value is unchanged.
C10_StatedPolicy ==
  IsSome(normalized) =>
    Get(normalized) =
      IF language # "bash" \/ platform # "win32" THEN pathValue
      ELSE IF ~IsDrivePath(pathValue) THEN pathValue
      ELSE IF bashImplementation = Some("wsl")
           THEN Mnt \o <<ToLowerChar(pathValue[1]), "/">>
                  \o Flipped(RestOf(pathValue))
           ELSE Flipped(pathValue)

\* C10 amended: as stated, except that under wsl the rest loses its leading
\* slashes, and a drive path whose rest holds a line terminator only has its
\* backslashes flipped, under wsl as under the other flavors.
C10_PathPolicy ==
  IsSome(normalized) =>
    /\ Get(normalized) =
         IF language # "bash" \/ platform # "win32" THEN pathValue
         ELSE IF ~IsDrivePath(pathValue) THEN pathValue
         ELSE IF /\ bashImplementation = Some("wsl")
                 /\ ~HasLineTerminator(RestOf(pathValue))
              THEN Mnt \o <<ToLowerChar(pathValue[1]), "/">>
                     \o WithoutLeadingSlashes(Flipped(RestOf(pathValue)))
              ELSE Flipped(pathValue)
    /\ (pathValue = DevFile /\ language = "bash" /\ platform = "win32") =>
         Get(normalized) =
           IF bashImplementation = Some("wsl") THEN DevFileWsl
           ELSE DevFileForward

C10_Witness ==
  /\ pathValue = DevFile
  /\ language = "bash"
  /\ platform = "win32"
  /\ bashImplementation = Some("wsl")
  /\ normalized = Some(DevFileWsl)

\* an env entry that is secret-backed and whose secret the store has no
\* value for, or that names no secret key
SecretAbsent(entry) ==
  /\ entry.fromSecret
  /\ \/ entry.secretKey = None
     \/ entry.secretKey = Some("")
     \/ \E sk \in {"s1", "s2"} :
          entry.secretKey = Some(sk) /\ sk \notin DOMAIN secretStorage

\* C4 as stated: with any secret-backed env entry whose secret is absent,
\* no process is ever spawned and execute throws 'Secret value not found'.
C4_AnyAbsentSecretFailsClosed ==
  (\E k \in 1..Len(execAction.env) : SecretAbsent(execAction.env[k])) =>
    /\ spawned = 0
    /\ execPc = "settled" =>
         /\ IsSome(execOutcome)
         /\ Get(execOutcome).kind = "error"
         /\ SubSeq(Get(execOutcome).message, 1, Len(SecretNotFoundText))
              = SecretNotFoundText

\* C4 amended: the same for an absent secret of an env entry with a
\* non-empty key; the loop skips entries without a key.
C4_SecretAbsenceFailsClosed ==
  (\E k \in 1..Len(execAction.env) :
      execAction.env[k].key # << >> /\ SecretAbsent(execAction.env[k])) =>
    /\ spawned = 0
    /\ execPc \in {"call", "planned", "settled"}
    /\ execPc = "settled" =>
         /\ IsSome(execOutcome)
         /\ Get(execOutcome).kind = "error"
         /\ SubSeq(Get(execOutcome).message, 1, Len(SecretNotFoundText))
              = SecretNotFoundText

\* the second entry's secret is absent, the first one's is stored
C4_Witness ==
  /\ execPc = "settled"
  /\ Len(execAction.env) = 2
  /\ execAction.env[1].fromSecret
  /\ ~SecretAbsent(execAction.env[1])
  /\ execAction.env[2].key = <<"K">>
  /\ execAction.env[2].secretKey = Some("s2")
  /\ SecretAbsent(execAction.env[2])
  /\ execOutcome = Some(SecretNotFound(<<"K">>))
  /\ spawned = 0

\* C5: a name with a value in providedValues is never prompted for, and
\* once resolve has copied the provided values the result maps it to that
\* value verbatim, whether the name is declared, only named by a script
\* token, or not declared at all.
C5_OverridePrecedence ==
  /\ \A k \in 1..Len(prompts) : prompts[k].name \notin DOMAIN providedValues
  /\ resolvePc \in {"loop", "returned"} =>
       \A n \in DOMAIN providedValues :
         n \in DOMAIN results /\ results[n] = providedValues[n]

\* P is provided as the empty string and both declared and named by the
\* script, R is provided and declared nowhere, and the call has returned.
C5_Witness ==
  /\ resolvePc = "returned"
  /\ DOMAIN providedValues = {NameP, NameR}
  /\ providedValues[NameP] = << >>
  /\ \E k \in 1..Len(resolveAction.parameters) :
       resolveAction.parameters[k].name = NameP
  /\ \E k \in 1..Len(descriptors) : descriptors[k].name = NameQ
  /\ Len(prompts) = 1
  /\ results[NameP] = << >>
  /\ results[NameR] = <<"v">>

\* C6: every declared parameter has exactly one entry in the merged
\* declaration set, and that entry carries the declared default, prompt and
\* required flag, also when the script holds a ${param:P:D2} token.
C6_MergePrecedence ==
  resolvePc \in {"loop", "returned"} =>
    \A i \in 1..Len(resolveAction.parameters) :
      LET p == resolveAction.parameters[i]
          same == {k \in 1..Len(descriptors) : descriptors[k].name = p.name}
      IN  /\ Cardinality(same) = 1
          /\ \A k \in same :
               /\ descriptors[k].defaultValue = p.defaultValue
               /\ descriptors[k].prompt = p.prompt
               /\ descriptors[k].required = p.required

C6_Witness ==
  /\ resolvePc = "loop"
  /\ resolveAction.script =
       TokenText(ParamKey \o <<":">> \o NameP \o <<":">> \o D2)
  /\ resolveAction.parameters =
       <<[name |-> NameP, prompt |-> Some(Ask), defaultValue |-> Some(D1),
          required |-> FALSE]>>
  /\ descriptors = resolveAction.parameters


(***************************************************************************)
(* Chain orchestration: C1, C2, C3.                                        *)
(***************************************************************************)
ExecutedIds == [k \in 1..Len(executions) |-> executions[k].actionId]
ChainTargets ==
  [k \in 1..Len(rootAction.chain) |-> rootAction.chain[k].targetActionId]
ExitedZero(o) == o.kind = "result" /\ o.exitCode = Some(0)
Failed(o) == o.kind = "error" \/ (o.kind = "result" /\ o.exitCode # Some(0))
CycleWarned ==
  \E k \in 1..Len(messages) :
    messages[k].text = "Detected cyclical action chain"

\* C1: within one chain run no action id is executed more than once.  The
\* root's id counts as visited from the start, and a link whose target was
\* already visited ends the run with the cyclical-chain warning: the calls
\* made are the root and the links before that one, and nothing is called
\* afterwards.  For root A with chain [B, A] the calls are A then B.
C1_CycleSafety ==
  /\ \A i, j \in 1..Len(executions) :
       i # j => executions[i].actionId # executions[j].actionId
  /\ CycleWarned =>
       /\ chainPc = "done"
       /\ linkIndex \in 1..Len(rootAction.chain)
       /\ \E k \in 1..Len(executions) :
            executions[k].actionId = ChainTargets[linkIndex]
       /\ ExecutedIds =
            <<rootAction.id>> \o SubSeq(ChainTargets, 1, linkIndex - 1)
  /\ (rootAction.id = "A" /\ ChainTargets = <<"B", "A">>) =>
       /\ ExecutedIds \in {<<"A">>, <<"A", "B">>}
       /\ (chainPc = "done" /\ Len(executions) = 2
             /\ ExitedZero(executions[2].outcome)) => CycleWarned

C1_Witness ==
  /\ chainPc = "done"
  /\ rootAction.id = "A"
  /\ ChainTargets = <<"B", "A">>
  /\ ExecutedIds = <<"A", "B">>
  /\ CycleWarned

\* C2: once a chained action settles with an exit code other than 0 (null
\* included) or its execute call throws, the run is over: it is the last
\* call made, it is not called again, and every chained call that was
\* followed by another one had exit code 0.  For root A with chain [B, C]
\* where B exits with code 2 the calls are A and B, never C.
C2_FailureHaltsChain ==
  /\ \A k \in 2..Len(executions) :
       Failed(executions[k].outcome) =>
         /\ k = Len(executions)
         /\ chainPc = "done"
         /\ \A j \in 1..Len(executions) :
              j # k => executions[j].actionId # executions[k].actionId
  /\ \A k \in 2..(Len(executions) - 1) : ExitedZero(executions[k].outcome)
  /\ (/\ rootAction.id = "A"
      /\ ChainTargets = <<"B", "C">>
      /\ Len(executions) >= 2
      /\ executions[2].outcome.exitCode = Some(2)) =>
       ExecutedIds = <<"A", "B">>

C2_Witness ==
  /\ chainPc = "done"
  /\ rootAction.id = "A"
  /\ ChainTargets = <<"B", "C">>
  /\ "C" \in activeActions
  /\ ExecutedIds = <<"A", "B">>
  /\ executions[2].outcome = Exited(Some(2), << >>)

\* C3: a chained action is executed only after the root settled with exit
\* code exactly 0; a non-zero or null exit code of the root, or a throw of
\* its execute call, leaves the root as the only call of the run.
C3_ChainOnlyAfterRootSuccess ==
  /\ Len(executions) >= 2 => ExitedZero(executions[1].outcome)
  /\ chainPc \in {"loop", "link"} => ExitedZero(executions[1].outcome)
  /\ (chainPc = "done" /\ Len(executions) >= 1
        /\ Failed(executions[1].outcome)) =>
       /\ Len(executions) = 1
       /\ visited = {}

C3_Witness ==
  /\ chainPc = "done"
  /\ Len(rootAction.chain) >= 1
  /\ ChainTargets[1] \in activeActions \ {rootAction.id}
  /\ Len(executions) = 1
  /\ executions[1].outcome = Exited(None, << >>)


(***************************************************************************)
(* Temporary files and launch failures: C11, C12, C13.                     *)
(***************************************************************************)
Launched == spawned > 0

\* the child of the run is gone and no handler of the run is pending:
\* execute has settled, or the terminal was closed and the child killed
RunOver == execPc \in {"settled", "abandoned"}

\* C11: for every run whose process was launched, in the terminal path as
\* in the output channel path, once the child is gone (closed with any exit
\* code, failed to launch, or killed) cleanup has run, once, and before
\* execute settled; unless a file system call of cleanup failed, the script
\* file and its folder are gone; and with or without such a failure execute
\* delivers exactly what the child's event stands for.
C11_CleanupAfterLaunch ==
  /\ (Launched /\ execOutcome # None) => execPc = "settled"
  /\ (Launched /\ RunOver) =>
       /\ Len(cleanups) = 1
       /\ ~cleanups[1].raised
       /\ cleanups[1].fault = "none" =>
            /\ ScriptPath \notin tempFs
            /\ TempDir \notin tempFs
            /\ ~cleanups[1].warned
  /\ (Launched /\ execPc = "settled") =>
       LET event == childEvents[1]
           delivered == Get(execOutcome)
       IN  IF event.type = "close"
           THEN delivered.kind = "result" /\ delivered.exitCode = event.code
           ELSE IF UseOutputChannel
           THEN delivered.kind = "error" /\ delivered.message = event.message
           ELSE delivered.kind = "result" /\ delivered.exitCode = Some(-1)
  /\ (Launched /\ execPc \in {"running", "closing"}) =>
       /\ cleanups = << >>
       /\ ScriptPath \in tempFs

\* C12: no call of cleanup raises, whatever the file system holds and
\* whichever of its calls fails; a call that finds the script file gone
\* leaves the file system as it is and warns of nothing, and that is what
\* every call after one that removed the file does.
C12_CleanupIdempotent ==
  \A k \in 1..Len(cleanupCalls) :
    LET call == cleanupCalls[k]
    IN  /\ ~call.raised
        /\ cleanupPath \notin call.before =>
             call.after = call.before /\ ~call.warned
        /\ (k > 1 /\ cleanupPath \notin cleanupCalls[k - 1].after) =>
             call.after = call.before /\ ~call.warned

C12_Witness ==
  /\ Len(cleanupCalls) >= 2
  /\ cleanupPath \in cleanupCalls[1].before
  /\ cleanupCalls[1].fault = "none"
  /\ cleanupCalls[1].after = cleanupCalls[1].before \ {<<"d">>, <<"d", "s">>, <<"d", "x">>}
  /\ cleanupPath = <<"d", "s">>
  /\ <<"e">> \in cleanupCalls[2].before
  /\ cleanupCalls[2].after = cleanupCalls[2].before
  /\ ~cleanupCalls[2].warned

\* C13: when the child's first event is an error, execute in the output
\* channel path rejects with that error, and stays rejected when a close
\* event follows; in the terminal path it resolves with exit code -1 and a
\* stderr that holds the text of the error.  A close event as the first one
\* resolves with the code the child reported.
C13_LaunchFailureDistinct ==
  (execPc = "settled" /\ childEvents # << >>) =>
    LET event == childEvents[1]
        delivered == Get(execOutcome)
    IN  IF event.type = "error"
        THEN IF UseOutputChannel
             THEN /\ delivered.kind = "error"
                  /\ delivered.message = event.message
             ELSE /\ delivered.kind = "result"
                  /\ delivered.exitCode = Some(-1)
                  /\ Contains(delivered.stderr, event.message)
                  /\ Contains(delivered.stderr, Flatten(event.stderrChunks))
        ELSE /\ delivered.kind = "result"
             /\ delivered.exitCode = event.code
             /\ delivered.exitCode # Some(-1)

C13_Witness ==
  /\ execPc = "settled"
  /\ UseOutputChannel
  /\ Len(childEvents) = 2
  /\ childEvents[1].type = "error"
  /\ childEvents[2].type = "close"
  /\ Get(execOutcome).kind = "error"
  /\ Get(execOutcome).message = SpawnMessage


(***************************************************************************)
(* Messages of runAction: C14.                                             *)
(***************************************************************************)
Shown(level, text) ==
  \E k \in 1..Len(messages) :
    messages[k].level = level /\ messages[k].text = text
ShownFor(level, subject) ==
  \E k \in 1..Len(messages) :
    messages[k].level = level /\ messages[k].subject = subject

\* C14: when runAction is over, the 'completed successfully' message is
\* there only if the root and every chained action that was executed exited
\* with code 0; every execution that exited with another code or null is
\* answered by a warning or an error message, and every execution that
\* threw by an error message that names its action.
C14_MessagesDistinguishOutcomes ==
  (chainPc = "done" /\ executions # << >>) =>
    /\ Shown("info", "completed successfully") =>
         \A k \in 1..Len(executions) : ExitedZero(executions[k].outcome)
    /\ \A k \in 1..Len(executions) :
         LET o == executions[k].outcome
         IN  /\ (o.kind = "result" /\ o.exitCode # Some(0)) =>
                  \E m \in 1..Len(messages) :
                    messages[m].level \in {"warning", "error"}
             /\ o.kind = "error" =>
                  ShownFor("error", executions[k].actionId)

\* ---------------------------------------------------------------------
\* Script-only parameters

DeclaredNames ==
  {resolveAction.parameters[k].name : k \in 1..Len(resolveAction.parameters)}
\* the ${param:n...} tokens of the script, in the order of the script
ParamTokens(n) ==
  SelectSeq(parseTemplateTokens(resolveAction.script),
            LAMBDA token : token.key = ParamKey
                             /\ ArgAt(token.args, 1) = Some(n))
\* names the script gives a ${param:...} token to and the action does not
\* declare
ScriptOnlyNames ==
  {n \in {NameP, NameQ, NameR, NameN} :
     ParamTokens(n) # << >> /\ n \notin DeclaredNames}
PromptsFor(n) == SelectSeq(prompts, LAMBDA entry : entry.name = n)
Resolved == resolvePc \in {"returned", "rendered"}

\* what both readings of C15 share: the name is merged once and as
\* required, exactly one input box is shown for it, and the result holds
\* the answer of that box or nothing
ImplicitlyRequired(n) ==
  /\ Cardinality({k \in 1..Len(descriptors) : descriptors[k].name = n}) = 1
  /\ \A k \in 1..Len(descriptors) :
       descriptors[k].name = n => descriptors[k].required
  /\ Len(PromptsFor(n)) = 1
  /\ IF PromptsFor(n)[1].answer = None THEN n \notin DOMAIN results
     ELSE n \in DOMAIN results /\ results[n] = Get(PromptsFor(n)[1].answer)
EchoExample ==
  (/\ resolvePc = "rendered"
   /\ resolveAction.script = EchoScript
   /\ NameN \in DOMAIN results
   /\ results[NameN] = World)
    => resolvedScript = [threw |-> FALSE, text |-> Echo \o World]

\* C15 as stated: a script token whose name the action does not declare is
\* merged as a required parameter; without a provided value the input box is
\* always shown, pre-filled with the default of that token, whichever token
\* of the name it is, and the default is never used silently; "echo
\* ${param:name:World}" answered with World renders as "echo World".
C15_EveryTokenDefaultPrefills ==
  /\ Resolved =>
       \A n \in ScriptOnlyNames \ DOMAIN providedValues :
         /\ ImplicitlyRequired(n)
         /\ \A k \in 1..Len(ParamTokens(n)) :
              PromptsFor(n)[1].value = ArgAt(ParamTokens(n)[k].args, 2)
  /\ EchoExample

\* C15, amended: the input box is pre-filled with the default of the first
\* token of that name in the script; a later token of the same name adds
\* nothing.
C15_ScriptOnlyParameterPrompts ==
  /\ Resolved =>
       \A n \in ScriptOnlyNames \ DOMAIN providedValues :
         /\ ImplicitlyRequired(n)
         /\ PromptsFor(n)[1].value = ArgAt(ParamTokens(n)[1].args, 2)
  /\ EchoExample

\* "echo ${param:name:World}" with no declaration of name: the box came up
\* pre-filled with World, was accepted, and the script rendered.
C15_Witness ==
  /\ resolvePc = "rendered"
  /\ resolveAction.script = EchoScript
  /\ NameN \in ScriptOnlyNames
  /\ Len(PromptsFor(NameN)) = 1
  /\ PromptsFor(NameN)[1].value = Some(World)
  /\ PromptsFor(NameN)[1].answer = Some(World)
  /\ resolvedScript.text = Echo \o World

\* ---------------------------------------------------------------------
\* Defaults of declared parameters

\* declared parameters that are not required, carry a default and have no
\* provided value
DefaultedDeclarations ==
  {k \in 1..Len(resolveAction.parameters) :
     /\ ~resolveAction.parameters[k].required
     /\ IsSome(resolveAction.parameters[k].defaultValue)
     /\ resolveAction.parameters[k].name \notin DOMAIN providedValues}
DefaultUsedSilently(p) ==
  /\ p.name \in DOMAIN results
  /\ results[p.name] = Get(p.defaultValue)
  /\ PromptsFor(p.name) = << >>
AskedOnce(p) ==
  /\ Len(PromptsFor(p.name)) = 1
  /\ PromptsFor(p.name)[1].value = p.defaultValue
  /\ IF PromptsFor(p.name)[1].answer = None THEN p.name \notin DOMAIN results
     ELSE /\ p.name \in DOMAIN results
          /\ results[p.name] = Get(PromptsFor(p.name)[1].answer)

\* C16 as stated: a declared parameter that is not required, has a default
\* and has no provided value gets the default without an input box, whatever
\* the default is, the empty string included.
C16_AnyDefaultUsedSilently ==
  Resolved =>
    \A k \in DefaultedDeclarations :
      DefaultUsedSilently(resolveAction.parameters[k])

\* C16, amended: such a parameter gets its default without an input box when
\* the default is not the empty string; with the empty string as default the
\* input box is shown, pre-filled with it, and the result holds the answer or
\* nothing.
C16_NonEmptyDefaultUsedSilently ==
  Resolved =>
    \A k \in DefaultedDeclarations :
      IF Get(resolveAction.parameters[k].defaultValue) # << >>
      THEN DefaultUsedSilently(resolveAction.parameters[k])
      ELSE AskedOnce(resolveAction.parameters[k])

\* P is declared optional with default D1 and not provided: the call
\* returned D1 for it and showed no input box at all.
C16_Witness ==
  /\ resolvePc = "returned"
  /\ \E k \in DefaultedDeclarations :
       /\ resolveAction.parameters[k].name = NameP
       /\ resolveAction.parameters[k].defaultValue = Some(D1)
  /\ results[NameP] = D1
  /\ prompts = << >>

\* ---------------------------------------------------------------------
\* A dismissed input box

\* names whose input box was dismissed
Unanswered ==
  {prompts[k].name : k \in {i \in 1..Len(prompts) : prompts[i].answer = None}}
\* the tokens of the script that refer to parameter n: ${param:n...}, and
\* ${n} when the action declares n
TokensReferringTo(n) ==
  SelectSeq(parseTemplateTokens(resolveAction.script),
            LAMBDA token :
              \/ token.key = ParamKey /\ ArgAt(token.args, 1) = Some(n)
              \/ token.key = n /\ n \in DeclaredNames)

\* C17: a parameter whose input box yields no answer is absent from the map
\* resolve returns, gets no PARAM_ variable, and the tokens referring to it
\* stay literal in the rendered script; the run is not aborted.
C17_UnansweredParameterOmitted ==
  /\ Resolved => \A n \in Unanswered : n \notin DOMAIN results
  /\ resolvePc = "rendered" /\ Unanswered # {} =>
       /\ ~resolvedScript.threw
       /\ \A n \in Unanswered :
            /\ ~Has(renderEnv, ParamVariable(n))
            /\ \A k \in 1..Len(TokensReferringTo(n)) :
                 Contains(resolvedScript.text, TokensReferringTo(n)[k].raw)

\* ---------------------------------------------------------------------
\* The captured context

\* a step of the run: anything but the store's update and the user's edits
RunStep == executions' # executions \/ chainPc' # chainPc

\* C18: the context is captured once per runAction; the root and every
\* chained execution receive that value; no step of the run changes it, and
\* no step of the run changes the stored definition of the running action or
\* the set of loaded definitions.
C18_ContextCapturedOnce ==
  /\ [](\A k \in 1..Len(executions) : executions[k].context = context)
  /\ [][chainPc # "idle" => context' = context]_vars
  /\ [][chainPc # "idle" => rootAction' = rootAction]_vars
  /\ [][RunStep => activeActions' = activeActions]_vars

\* A chained execution has started after the editor changed under the run:
\* what a capture would give now differs from what the link received.
C18_Witness ==
  /\ Len(executions) >= 2
  /\ chainPc = "link"
  /\ \A overrides \in ContextOverrides :
       buildExecutionContext(overrides, editorState) # context
  /\ executions[Len(executions)].context = executions[1].context

\* ---------------------------------------------------------------------
\* The log lines and the environment of a spawned process

\* text.split(sub).join(with)
RECURSIVE ReplaceAll(_, _, _)
ReplaceAll(text, sub, with) ==
  LET hits == {i \in 1..(Len(text) - Len(sub) + 1) :
                 SubSeq(text, i, i + Len(sub) - 1) = sub}
  IN  IF sub = << >> \/ hits = {} THEN text
      ELSE SubSeq(text, 1, SetMin(hits) - 1) \o with
             \o ReplaceAll(SubSeq(text, SetMin(hits) + Len(sub), Len(text)),
                           sub, with)
\* the lines of a run with its timestamp and its temporary path blanked
Masked(run) ==
  [k \in 1..Len(outputLines[run]) |->
     ReplaceAll(ReplaceAll(outputLines[run][k], TimestampOf(run), <<"?">>),
                PlanOf(logTarget, run).args[1], <<"?">>)]

\* C19: two runs of execute that differ only in the values the secret store
\* holds write the same lines to the output channel before launch, the
\* timestamp and the temporary path aside.
C19_SecretValuesNotLogged ==
  logPc = "logged" => Masked(1) = Masked(2)

\* K is read from secret s1, whose value differs between the two stores:
\* the environments differ, and both runs logged the key K.
C19_Witness ==
  /\ logPc = "logged"
  /\ secretStores[1]["s1"] # secretStores[2]["s1"]
  /\ Lookup(spawnOptionsOf[1].env, KeyK) = Some(<<"t">>)
  /\ Lookup(spawnOptionsOf[2].env, KeyK) = Some(<<"u">>)
  /\ ~logOutputChannel
  /\ Len(outputLines[2]) = 4
  /\ outputLines[2][4] =
       <<" ", " ", " ", " ", "e", "n", "v", " ", "k", "e", "y", "s", ":", " ">>
         \o Join(<<KeyK, SnipItActionId, SnipItWorkingDirectory>>, <<",", " ">>)

DeclaredKeys == {logAction.env[k].key : k \in 1..Len(logAction.env)}
NoDeclaredCollision ==
  /\ DeclaredKeys \cap {SnipItActionId, SnipItWorkingDirectory} = {}
  /\ \A k \in 1..Len(logParameters) :
       ParamPrefix \o ToUpperCase(logParameters[k].key) \notin DeclaredKeys
Spawning(run) ==
  logPc \in {"options", "logged"} /\ ~spawnOptionsOf[run].threw
MarkersSet(run) ==
  /\ Lookup(spawnOptionsOf[run].env, SnipItActionId) = Some(logAction.id)
  /\ Lookup(spawnOptionsOf[run].env, SnipItWorkingDirectory) =
       Some(normalizePathForShell(WorkingDirectoryOn(logTarget),
                                  logAction.language, logTarget.platform,
                                  logTarget.bashImplementation))
ParamSet(run, k) ==
  Lookup(spawnOptionsOf[run].env,
         ParamPrefix \o ToUpperCase(logParameters[k].key)) =
    Some(normalizePathForShell(logParameters[k].value, logAction.language,
                               logTarget.platform,
                               logTarget.bashImplementation))

\* C20 as stated: when no declared env key collides, the environment of a
\* spawned process holds the action's id and the normalized working
\* directory under the two markers and, for every resolved name n, the
\* normalized value of n under PARAM_<uppercase(n)>.
C20_EveryParameterExported ==
  \A run \in 1..2 :
    Spawning(run) /\ NoDeclaredCollision =>
      /\ MarkersSet(run)
      /\ \A k \in 1..Len(logParameters) : ParamSet(run, k)

\* C20, amended: the same for every resolved name that no later name of the
\* map equals in upper case; of names that differ only in case the last one
\* in the map's key order gives PARAM_<NAME> its value.
C20_LastParameterOfAName ==
  \A run \in 1..2 :
    Spawning(run) /\ NoDeclaredCollision =>
      /\ MarkersSet(run)
      /\ \A k \in 1..Len(logParameters) :
           (\A j \in (k + 1)..Len(logParameters) :
              ToUpperCase(logParameters[j].key)
                # ToUpperCase(logParameters[k].key))
             => ParamSet(run, k)

\* On win32 with WSL bash the parameter p holds C:\d and the working
\* directory is C:\w: the process gets PARAM_P=/mnt/c/d and the working
\* directory marker /mnt/c/w.
C20_Witness ==
  /\ logPc = "options"
  /\ logTarget.platform = "win32"
  /\ NoDeclaredCollision
  /\ logAction.env # << >>
  /\ logParameters = <<[key |-> <<"p">>, value |-> DrivePath]>>
  /\ Lookup(spawnOptionsOf[1].env, <<"P", "A", "R", "A", "M", "_", "P">>) =
       Some(<<"/", "m", "n", "t", "/", "c", "/", "d">>)
  /\ Lookup(spawnOptionsOf[1].env, SnipItWorkingDirectory) =
       Some(<<"/", "m", "n", "t", "/", "c", "/", "w">>)

\* ---------------------------------------------------------------------
\* The stored actions

UniqueIds(actions) ==
  \A i, j \in 1..Len(actions) : actions[i].id = actions[j].id => i = j
\* C21: from a store with pairwise distinct ids, no sequence of
\* createAction, editAction, deleteAction and importActions leaves two
\* stored actions with one id, also when an import file repeats an id or
\* holds a stored one; save replaces the entry of the same id in place or
\* appends exactly one entry.
C21_IdsUnique ==
  /\ UniqueIds(cache)
  /\ lastSave # None => Get(lastSave).upserted

\* The store holds A and an imported action that came as " A" and got a
\* fresh id, and the last save replaced a stored entry.
C21_Witness ==
  /\ Len(cache) = 2
  /\ cache[1] = [id |-> IdA, name |-> "n2"]
  /\ cache[2] = [id |-> Uuid(0), name |-> "n2"]
  /\ lastSave = Some([held |-> TRUE, upserted |-> TRUE])

\* C22: at most one action chain runs at a time: while one run (root and
\* chained follow-ups) is in progress, no second run triggered by the user
\* executes concurrently with it.
C22_OneChainAtATime ==
  \A r, q \in RunIds : (InProgress(r) /\ Executing(q)) => r = q

\* C23: a chain is strictly sequential: an execute call is made only when
\* every earlier call of the run (the root, then link after link) has
\* settled with a result, so at most one call is in progress and it is the
\* last one made.
Settled(k) == executions[k].outcome.kind = "result"
C23_ChainSequential ==
  /\ \A k \in 1..(Len(executions) - 1) : Settled(k)
  /\ Cardinality({k \in 1..Len(executions) : executions[k].outcome = NoResult}) <= 1
  /\ chainPc \in {"root", "link"} <=> (executions # << >> /\ executions[Len(executions)].outcome = NoResult)
C23_Witness ==
  /\ Len(executions) = 3
  /\ Settled(1) /\ Settled(2)
  /\ executions[3].outcome = NoResult
  /\ chainPc = "link"

\* C24: a ${param:Name:Default:Prompt} token of the draft's script is in
\* the stored script with its name and arguments after the save, so that
\* extractParameterDescriptors of the stored script yields a descriptor for
\* Name.
DeclaringTokens(src) ==
  SelectSeq(parseTemplateTokens(src),
            LAMBDA token : /\ token.key = ParamKey
                           /\ ArgAt(token.args, 1) \notin {None, Some(<< >>)})
DescribedNames(src) ==
  {extractParameterDescriptors(src)[k].name :
     k \in 1..Len(extractParameterDescriptors(src))}
C24_ParamTokenSurvivesSave ==
  IsSome(storedScript) =>
    \A k \in 1..Len(DeclaringTokens(draftScript)) :
      LET token == DeclaringTokens(draftScript)[k]
      IN  /\ Contains(Get(storedScript), token.raw)
          /\ token.args[1] \in DescribedNames(Get(storedScript))

\* C25: a link whose target is not among the loaded actions ends the chain
\* with the not-found warning: the step that meets it calls nothing and
\* ends the run, so the calls made are the root and the links before it and
\* no later link is executed, whether its target is loaded or not.
MissingTargetMet ==
  /\ chainPc = "loop"
  /\ linkIndex <= Len(rootAction.chain)
  /\ rootAction.chain[linkIndex].targetActionId \notin visited
  /\ rootAction.chain[linkIndex].targetActionId \notin activeActions
NotFoundWarnings ==
  {k \in 1..Len(messages) : messages[k].text = "Chained action not found"}
C25_MissingTargetAbortsChain ==
  /\ [][MissingTargetMet =>
          /\ executions' = executions
          /\ chainPc' = "done"
          /\ NotFoundWarnings' # {}]_vars
  /\ [](NotFoundWarnings # {} =>
          /\ chainPc = "done"
          /\ Cardinality(NotFoundWarnings) = 1
          /\ linkIndex <= Len(rootAction.chain)
          /\ Len(executions) = linkIndex
          /\ \A k \in NotFoundWarnings :
               /\ messages[k].level = "warning"
               /\ messages[k].subject = rootAction.chain[linkIndex].targetActionId)
C25_Witness ==
  /\ NotFoundWarnings # {}
  /\ Len(rootAction.chain) = 2
  /\ linkIndex = 1
  /\ rootAction.chain[2].targetActionId \in activeActions \ {rootAction.id}
  /\ Len(executions) = 1

\* C27: the k-th link that is executed gets an empty override map when it
\* declares no passOutputAs, and otherwise the one entry that maps
\* passOutputAs to the trimmed stdout of the call made just before it (the
\* root for the first link, the previous link afterwards); it is run with
\* forceOutputChannel equal to its target's own runInOutputChannel.
C27_LinkOverridesAndChannel ==
  \A k \in 2..Len(executions) :
    LET link == rootAction.chain[k - 1]
        call == executions[k]
        before == executions[k - 1]
    IN  /\ call.actionId = link.targetActionId
        /\ link.passOutputAs = None => call.overrides = << >>
        /\ link.passOutputAs # None =>
             /\ DOMAIN call.overrides = {Get(link.passOutputAs)}
             /\ call.overrides[Get(link.passOutputAs)] =
                  prepareChainedOutput(before.outcome.stdout)
        /\ call.forceOutputChannel = Some(RunInOutputChannel(link.targetActionId))
\* the second link receives the output of the first and not the root's, and
\* runs in the channel although the root does not
C27_Witness ==
  /\ Len(executions) = 3
  /\ rootAction.id = "A"
  /\ executions[1].outcome.stdout = << >>
  /\ executions[2].outcome.stdout = <<"o", "\n">>
  /\ executions[3].actionId = "B"
  /\ executions[3].overrides = [n \in {"p"} |-> <<"o">>]
  /\ executions[3].forceOutputChannel = Some(TRUE)
  /\ rootAction.chain[1].passOutputAs = None
  /\ executions[2].overrides = << >>

\* C26: a token with key param is resolved through the parameter map only,
\* by its first argument.  A token with another key takes the value of the
\* predefined variable of that name whenever the captured context gives it
\* one; failing that, it goes to the declared parameter of exactly that name
\* (its value in the map, and without one the token stays as written unless
\* the formatting of the missing value fails); failing that, it stays as
\* written.  A declared parameter named like a predefined variable is used
\* only when that variable has no value.
TheToken == MakeToken(tokenSource)
Declared(n) ==
  \E k \in 1..Len(tokenAction.parameters) : tokenAction.parameters[k].name = n
PredefinedValue ==
  resolvePredefinedVariable(TheToken.key, tokenContext,
                            [workspaceFolder |-> None])
RenderedAs(text) == Get(tokenRendered) = [threw |-> FALSE, text |-> text]
LookupFailed(where) ==
  \/ where.threw
  \/ where.status # 0
  \/ \A k \in 1..Len(where.stdout) : where.stdout[k] \in {" ", "\r", "\n"}
C29_BashLookupMemoised ==
  /\ [](bashLookups <= 1 /\ Len(lookedUp) = bashLookups)
  /\ [](bashLookups = 1 => cachedBashInfo # None)
  /\ []((lookedUp # << >> /\ LookupFailed(lookedUp[1])) =>
          cachedBashInfo = Some(FallbackBashInfo))
  /\ [][cachedBashInfo # None => cachedBashInfo' = cachedBashInfo]_vars
  /\ [][(cachedBashInfo # None /\ bashLookups' = bashLookups /\ lastCommand' # lastCommand
           /\ lastCommand'.implementation # "none") =>
          lastCommand' = Get(cachedBashInfo)]_vars
\* the first lookup found nothing, bash was installed afterwards, and the
\* third call for a bash action still gets the fallback
C29_Witness ==
  /\ bashCalls = 3
  /\ bashLookups = 1
  /\ LookupFailed(lookedUp[1])
  /\ ~LookupFailed(whereOutput)
  /\ lastCommand = FallbackBashInfo

\* C30: the search ends for every start directory; it looks into the start
\* directory and then its ancestors in turn, each once, no further than the
\* root; the command is the interpreter of the nearest of them that has a
\* virtual environment, the first of the named subdirectories that holds
\* one and only without any of them the directory's own bin/python beside
\* the marker file pyvenv.cfg; and it is the bare python when no ancestor
\* has one.
Ancestors == [k \in 1..(Len(pyStart) + 1) |-> SubSeq(pyStart, 1, Len(pyStart) + 1 - k)]
NamedHits(directory) ==
  {k \in 1..Len(VenvCandidates) :
     (directory \o <<VenvCandidates[k], "bin", "python">>) \in pyFiles}
IsVenvRoot(directory) ==
  /\ (directory \o <<"pyvenv.cfg">>) \in pyFiles
  /\ (directory \o <<"bin", "python">>) \in pyFiles
WithEnvironment ==
  {k \in 1..Len(Ancestors) :
     NamedHits(Ancestors[k]) # {} \/ IsVenvRoot(Ancestors[k])}
NearestInterpreter ==
  LET directory == Ancestors[SetMin(WithEnvironment)]
  IN  IF NamedHits(directory) # {}
      THEN directory \o <<VenvCandidates[SetMin(NamedHits(directory))], "bin", "python">>
      ELSE directory \o <<"bin", "python">>
C30_NearestInterpreter ==
  /\ <>(pyPc = "done")
  /\ [](pyVisited = SubSeq(Ancestors, 1, Len(pyVisited)))
  /\ [](pyPc = "done" =>
          IF WithEnvironment = {}
          THEN pyCommand = PythonWord /\ Len(pyVisited) = Len(Ancestors)
          ELSE /\ pyCommand = NearestInterpreter
               /\ Len(pyVisited) = SetMin(WithEnvironment))
\* started two levels down, nothing there, and the parent has pyvenv.cfg
\* with bin/python and an env subdirectory too: the subdirectory wins, and
\* the root, which has .venv, is not looked into
C30_Witness ==
  /\ pyPc = "done"
  /\ pyStart = <<"a", "b">>
  /\ pyVisited = <<<<"a", "b">>, <<"a">>>>
  /\ IsVenvRoot(<<"a">>)
  /\ pyCommand = <<"a", "env", "bin", "python">>
  /\ <<".venv", "bin", "python">> \in pyFiles

(***************************************************************************)
(* ProcessTerminal.dispose: C31.                                           *)
(***************************************************************************)
\* C31: dispose is idempotent and terminates the process.  The first call
\* sends the kill signal to a child that is still running, fires the close
\* event once and leaves no child running; every later call, whoever makes
\* it, leaves the terminal as it was; so at most one signal is sent and
\* the close event fires at most once.
C31_DisposeIdempotent ==
  /\ pty.killSignals <= 1
  /\ pty.closeFired <= 1
  /\ pty.disposed =>
       /\ pty.closeFired = 1
       /\ IsSome(pty.process) => Get(pty.process).state # "running"
  /\ \A k \in 1..Len(ptyDisposeCalls) :
       LET call == ptyDisposeCalls[k]
       IN  /\ call.after.disposed
           /\ call.before.disposed => call.after = call.before
           /\ (~call.before.disposed
                 /\ Get(call.before.process).state = "running") =>
                /\ Get(call.after.process).state = "killed"
                /\ call.after.killSignals = call.before.killSignals + 1
           /\ k > 1 => call.before.disposed

C31_Witness ==
  /\ Len(ptyDisposeCalls) = 3
  /\ ptyDisposeCalls[1].caller = "close"
  /\ Get(ptyDisposeCalls[1].before.process).state = "running"
  /\ ptyDisposeCalls[2].caller = "host"
  /\ ptyDisposeCalls[3].caller = "close"
  /\ pty.killSignals = 1
  /\ pty.closeFired = 1

(***************************************************************************)
(* Closing the terminal of a running action: C32.                          *)
(***************************************************************************)
\* C32: a run in the terminal whose terminal the user closes while the
\* process is running always settles: execute delivers a result for the
\* run, after which cleanup is called on the temporary script.
C32_ClosedTerminalSettles ==
  (execPc = "abandoned") ~> (execOutcome # None /\ Len(cleanups) = 1)

(***************************************************************************)
(* The temporary script of a run that settled: C33.                        *)
(***************************************************************************)
ScriptWritten == execPc \notin {"idle", "call"}
NoCleanupFault == \A k \in 1..Len(cleanups) : cleanups[k].fault = "none"

\* C33: once execute has settled, with a result or with an error, after
\* writeTemporaryScript wrote the script of the run, the script file and
\* its directory are gone, whether the run was launched or the assembly of
\* the environment threw before the launch (no call of the file system
\* failing).
C33_NoTempScriptOutlivesRun ==
  (ScriptWritten /\ execPc = "settled" /\ NoCleanupFault) =>
    (ScriptPath \notin tempFs /\ TempDir \notin tempFs)

(***************************************************************************)
(* The order of the writers of the environment: C34.                       *)
(***************************************************************************)
Assembled == IsSome(assemblyBuilt) /\ ~Get(assemblyBuilt).threw
Write(key, value) == [key |-> key, value |-> value]

\* the inherited environment and the two marker variables
MarkerWrites ==
  <<Write(SnipItActionId, AssemblyAction.id),
    Write(SnipItWorkingDirectory,
          normalizePathForShell(WorkingDirectoryOn(assemblyInput.target),
                                AssemblyAction.language,
                                assemblyInput.target.platform,
                                assemblyInput.target.bashImplementation))>>
\* a declared entry writes when it has a key and is secret-backed or has a
\* value
EntryWrites(entry) ==
  IF entry.key = << >> \/ (~entry.fromSecret /\ entry.value = None)
  THEN << >>
  ELSE <<Write(entry.key,
               OrEmpty(Substitute(
                 IF entry.fromSecret
                 THEN readSecret(assemblyInput.storage, entry.secretKey)
                 ELSE entry.value,
                 AssemblyAction, AssemblyOptions,
                 assemblyInput.target.bashImplementation, AssemblyHost)))>>
RECURSIVE DeclaredWrites(_)
DeclaredWrites(entries) ==
  IF entries = << >> THEN << >>
  ELSE EntryWrites(Head(entries)) \o DeclaredWrites(Tail(entries))
ParameterWrites ==
  [k \in 1..Len(assemblyInput.parameterValues) |->
     Write(ParamPrefix \o ToUpperCase(assemblyInput.parameterValues[k].key),
           normalizePathForShell(assemblyInput.parameterValues[k].value,
                                 AssemblyAction.language,
                                 assemblyInput.target.platform,
                                 assemblyInput.target.bashImplementation))]
\* every write in the fixed order
Writes ==
  assemblyInput.processEnv \o MarkerWrites
    \o DeclaredWrites(assemblyInput.env) \o ParameterWrites
LastWrite(writes, key) ==
  LET at == {k \in 1..Len(writes) : writes[k].key = key}
  IN  writes[CHOOSE k \in at : \A j \in at : j <= k].value

\* C34 as stated: every declared entry whose key is an inherited key or a
\* marker name replaces the inherited or marker value (the declared values
\* of the inputs differ from the inherited and marker values).
C34_EveryDeclaredEntryReplaces ==
  Assembled =>
    LET before == assemblyInput.processEnv \o MarkerWrites
    IN  \A k \in 1..Len(assemblyInput.env) :
          LET key == assemblyInput.env[k].key
          IN  Has(before, key) =>
                Lookup(Get(assemblyBuilt).env, key)
                  # Some(LastWrite(before, key))

\* C34, amended: the environment holds exactly the keys written, each with
\* the value of its last writer in the order inherited, markers, declared
\* entries as declared, PARAM_ variables; a declared entry writes when it
\* has a key and is secret-backed or has a value, and a plain entry without
\* a value leaves its key as it was.
C34_LastWriterWins ==
  Assembled =>
    LET env == Get(assemblyBuilt).env
    IN  /\ {env[k].key : k \in 1..Len(env)}
             = {Writes[k].key : k \in 1..Len(Writes)}
        /\ \A k \in 1..Len(env) : env[k].value = LastWrite(Writes, env[k].key)

C34_Witness ==
  /\ Assembled
  /\ Has(assemblyInput.processEnv, ParamP)
  /\ Len(assemblyInput.env) = 2
  /\ assemblyInput.env[1].key = ParamP
  /\ assemblyInput.env[1].value = Some(<<"x">>)
  /\ assemblyInput.env[2].key = SnipItActionId
  /\ assemblyInput.env[2].value = Some(<<"x">>)
  /\ Keys(assemblyInput.parameterValues) = << <<"p">>, <<"P">> >>
  /\ Lookup(Get(assemblyBuilt).env, ParamP) = Some(<<"b">>)
  /\ Lookup(Get(assemblyBuilt).env, SnipItActionId) = Some(<<"x">>)
  /\ Lookup(Get(assemblyBuilt).env, SnipItWorkingDirectory) # Some(<<"h">>)

(***************************************************************************)
(* Chains of chained targets: C35.                                         *)
(***************************************************************************)
\* C35: a chain run is flat.  After the root, the run executes targets of
\* the root's own chain only, in the order declared; the chain of a target
\* is never followed, so an action that only a target's chain names is
\* never executed.
C35_ChainRunIsFlat ==
  LET own == flatActions[FlatRoot]
  IN  flatExecuted # << >> =>
        /\ flatExecuted[1] = FlatRoot
        /\ Len(flatExecuted) <= Len(own) + 1
        /\ \A k \in 2..Len(flatExecuted) :
             flatExecuted[k] = own[k - 1].targetActionId
        /\ \A id \in ActionIds :
             (id # FlatRoot
                /\ \A k \in 1..Len(own) : own[k].targetActionId # id) =>
               \A k \in 1..Len(flatExecuted) : flatExecuted[k] # id

C35_Witness ==
  /\ flatPc = "done"
  /\ flatActions[FlatRoot] = <<Link("B")>>
  /\ DOMAIN flatActions = ActionIds
  /\ flatActions["B"] = <<Link("C")>>
  /\ flatExecuted = <<"A", "B">>
  /\ flatIndex = 2

(***************************************************************************)
(* Chain links across an import: C36.                                      *)
(***************************************************************************)
\* no two actions of the file have the same original id (the id as
\* importActions reads it, trimmed)
FileIdsDistinct ==
  \A j, k \in 1..Len(importParsed) :
    (j # k /\ OriginalId(importParsed[j]) # None) =>
      OriginalId(importParsed[j]) # OriginalId(importParsed[k])

Reflects(list, request) ==
  IF request.kind = "save"
  THEN \E k \in 1..Len(list) : list[k] = request.action
  ELSE request.id \notin StoredIds(list)

\* C37: when two save or delete operations on different action ids were in
\* flight at the same time, after both have completed the cached list and
\* the last change event show the effect of both.
C37_NoLostUpdate ==
  (opOverlap /\ \A i \in OpIds : opPc[i] = "done") =>
    \A i \in OpIds :
      /\ Reflects(sharedCache, opRequest[i])
      /\ Reflects(Get(lastEvent), opRequest[i])

(***************************************************************************)
(* The target of a saved draft: C38.                                       *)
(***************************************************************************)
\* C38: a draft saved from the panel is applied to the target the panel was
\* last opened for: a draft of a new action adds one action and changes no
\* stored one, and a draft of a stored action replaces that action and
\* nothing else.
C38_DraftAppliedToShownTarget ==
  \A k \in 1..Len(editorSaves) :
    LET call == editorSaves[k]
    IN  IF IsNewAction(call.shown)
        THEN /\ Len(call.after) = Len(call.before) + 1
             /\ SubSeq(call.after, 1, Len(call.before)) = call.before
        ELSE /\ Len(call.after) = Len(call.before)
             /\ \A n \in 1..Len(call.before) :
                  call.before[n].id # call.shown.id =>
                    call.after[n] = call.before[n]

(***************************************************************************)
(* ClipboardTrigger after dispose: C39.                                    *)
(***************************************************************************)
\* C39: the handler is never invoked after dispose has returned, also for
\* a check that was reading the clipboard when dispose was called; and
\* however often start is called, at most one polling timer is set.
C39_NoHandlerAfterDispose ==
  /\ \A k \in 1..Len(clipHandled) : ~clipHandled[k].disposed
  /\ clipTimers <= 1

(***************************************************************************)
(* Secrets of a test run: C40.                                             *)
(***************************************************************************)
TestSecretsGone == \A k \in testStored : ~Has(testStorage, k)
SavedSecretsKept ==
  \A k \in 1..Len(testSaved) :
    Lookup(testStorage, testSaved[k].key) = Some(testSaved[k].value)

\* C40: once testDraft has settled, with a result or with an error raised
\* at any point, also while the test definition was being built, every
\* secret stored under a test key for the test is deleted and every secret
\* of a saved action is as it was.
C40_TestLeavesNoSecret ==
  testPc = "settled" => (TestSecretsGone /\ SavedSecretsKept)

====
